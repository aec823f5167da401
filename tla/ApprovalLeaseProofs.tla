-------------------------- MODULE ApprovalLeaseProofs --------------------------
(***************************************************************************)
(* Proofs about ApprovalLease for any number of boots and approvals, any   *)
(* clock bound and any approval window.                                    *)
(***************************************************************************)
EXTENDS ApprovalLease, TLAPS

LEMMA InitLeaseInv == Init => LeaseInv
  <1> SUFFICES ASSUME Init PROVE LeaseInv
    OBVIOUS
  <1>1. TypeOK
    BY LeaseAssumption DEF Init, TypeOK, Time, Kinds
  <1>2. UnbootedIsInert /\ BootOwnsItsRow /\ RowOwnerBooted
    BY DEF Init, UnbootedIsInert, BootOwnsItsRow, RowOwnerBooted, Booted
  <1>3. Accounted /\ RowsInOrder /\ UnfinishedIsLast
    BY DEF Init, Accounted, RowsInOrder, UnfinishedIsLast, Booted
  <1> QED
    BY <1>1, <1>2, <1>3 DEF LeaseInv

(* A boot that reserves an approval takes a row nobody had.                *)
LEMMA BootStep ==
  ASSUME NEW b \in Boots, NEW a \in Approvals, NEW e \in Time,
         LeaseInv, BootApproved(b, a, e)
  PROVE  LeaseInv'
  <1> USE DEF BootApproved, Reserve, callVars, LeaseInv
  <1>0. b # None /\ rows[a] = None /\ ~Booted(b) /\ Booted(b)'
    BY LeaseAssumption DEF TypeOK, Booted
  <1>1. TypeOK'
    BY LeaseAssumption DEF TypeOK, Row, Profile, Later, Time, Kinds
  <1>2. \A c \in Boots \ {b} :
           /\ Booted(c)' <=> Booted(c)
           /\ profile'[c] = profile[c]
           /\ Booted(c) => Approval(c)' = Approval(c) /\ Approval(c) # a
                           /\ OwnRow(c)' = OwnRow(c)
    BY <1>0 DEF TypeOK, Booted, Approval, OwnRow, BootOwnsItsRow
  <1>3. /\ Approval(b)' = a
        /\ OwnRow(b)' = [owner |-> b, expires |-> e, state |-> "RESERVED",
                         used |-> [k \in Kinds |-> 0]]
    BY DEF TypeOK, Approval, OwnRow
  <1>4. UnbootedIsInert'
    BY <1>0, <1>2 DEF UnbootedIsInert
  <1>5. BootOwnsItsRow'
    <2>1. profile'[b] # None /\ OwnRow(b)' # None /\ OwnRow(b)'.owner = b
      <3>1. profile'[b] \in Profile /\ OwnRow(b)' \in Row
        BY <1>3 DEF TypeOK, Profile, Row, Kinds
      <3>2. QED
        BY <3>1, <1>3, LeaseAssumption
    <2>2. QED
      BY <2>1, <1>2 DEF BootOwnsItsRow
  <1>6. RowOwnerBooted'
    BY <1>0, <1>2, <1>3, LeaseAssumption DEF RowOwnerBooted, TypeOK, Row, Booted, Approval
  <1>7. Accounted'
    <2> SUFFICES ASSUME NEW c \in Boots, Booted(c)', NEW k \in Kinds
                 PROVE  IF pc[c] = "spent" /\ kind[c] = k
                        THEN OwnRow(c)'.used[k] = 1 /\ counters[c][k] = 0
                        ELSE OwnRow(c)'.used[k] = counters[c][k]
      BY DEF Accounted, Booted, OwnRow
    <2>1. CASE c = b
      BY <2>1, <1>0, <1>3 DEF UnbootedIsInert
    <2>2. CASE c # b
      BY <2>2, <1>2 DEF Accounted
    <2> QED BY <2>1, <2>2
  <1>8. RowsInOrder'
    BY <1>0 DEF RowsInOrder, TypeOK
  <1>9. UnfinishedIsLast'
    BY <1>0, <1>2 DEF UnfinishedIsLast, UnbootedIsInert
  <1> QED
    BY <1>1, <1>4, <1>5, <1>6, <1>7, <1>8, <1>9

(* Steps that neither touch a row, a lease or a counter nor begin or end   *)
(* the stretch between a consume and its return.                           *)
LEMMA QuietStep ==
  ASSUME LeaseInv, TypeOK', UNCHANGED <<rows, profile, counters>>,
         \A b \in Boots : /\ Booted(b)' <=> Booted(b)
                          /\ \/ pc'[b] = pc[b] /\ kind'[b] = kind[b]
                             \/ /\ pc[b] # "spent" /\ pc'[b] # "spent"
                                /\ Booted(b)
  PROVE  LeaseInv'
  <1> USE DEF LeaseInv
  <1>1. UnbootedIsInert'
    BY DEF UnbootedIsInert
  <1>2. \A b \in Boots : OwnRow(b)' = OwnRow(b) /\ Approval(b)' = Approval(b)
    BY DEF OwnRow, Approval
  <1>3. BootOwnsItsRow'
    BY <1>2 DEF BootOwnsItsRow
  <1>4. RowOwnerBooted'
    <2> SUFFICES ASSUME NEW a \in Approvals, rows[a] # None
                 PROVE  Booted(rows[a].owner)' /\ Approval(rows[a].owner)' = a
      BY DEF RowOwnerBooted, Booted, Approval
    <2>1. rows[a].owner \in Boots
      BY DEF TypeOK, Row
    <2> QED
      BY <2>1, <1>2 DEF RowOwnerBooted
  <1>5. Accounted'
    BY <1>2 DEF Accounted
  <1>6. RowsInOrder'
    BY DEF RowsInOrder
  <1>7. UnfinishedIsLast'
    BY <1>2 DEF UnfinishedIsLast
  <1> QED
    BY <1>1, <1>3, <1>4, <1>5, <1>6, <1>7

(* What the UPDATE of consume does to a row.                               *)
LEMMA SpentRow ==
  ASSUME NEW row \in Row, NEW k \in Kinds
  PROVE  /\ Spent(row, k) \in Row
         /\ Spent(row, k).owner = row.owner
         /\ Spent(row, k).expires = row.expires
         /\ Spent(row, k).used[k] = 1
         /\ \A j \in Kinds \ {k} : Spent(row, k).used[j] = row.used[j]
  BY DEF Spent, Row

(* Consuming a budget sets it in the boot's own row, and in no other.      *)
LEMMA ConsumeStep ==
  ASSUME NEW b \in Boots, LeaseInv, Consume(b)
  PROVE  LeaseInv'
  <1> USE DEF LeaseInv, gateVars
  <1> DEFINE mine == rows[Approval(b)]
             k0 == kind[b]
  <1>0. /\ phase[b] = "open" /\ pc[b] = "checked" /\ Booted(b)
        /\ Approval(b) \in Approvals /\ k0 \in Kinds
        /\ mine \in Row /\ mine.owner = b /\ mine.used[k0] = 0
        /\ \A j \in Before(k0) : mine.used[j] = 1
        /\ UNCHANGED <<wall, mono, phase, profile, deadline, counters, kind>>
    BY DEF TypeOK, Consume, Booted, BootOwnsItsRow, OwnRow, Approval, Profile,
           Spendable, Held
  <1>1. /\ rows' = [rows EXCEPT ![Approval(b)] = Spent(mine, k0)]
        /\ pc' = [pc EXCEPT ![b] = "spent"]
        /\ high' = Later(high, wall)
    BY DEF Consume
  <1>2. TypeOK'
    BY <1>0, <1>1, SpentRow DEF TypeOK, Later, Time
  <1>3. rows'[Approval(b)] = Spent(mine, k0)
    BY <1>0, <1>1 DEF TypeOK
  <1>4. /\ rows'[Approval(b)] \in Row /\ rows'[Approval(b)] # None
        /\ rows'[Approval(b)].owner = b
        /\ rows'[Approval(b)].used[k0] = 1
        /\ \A k \in Kinds \ {k0} : rows'[Approval(b)].used[k] = mine.used[k]
        /\ \A a \in Approvals \ {Approval(b)} : rows'[a] = rows[a]
    <2>1. \A a \in Approvals \ {Approval(b)} : rows'[a] = rows[a]
      BY <1>1 DEF TypeOK
    <2> QED
      BY <2>1, <1>0, <1>3, SpentRow, LeaseAssumption
  <1>5. \A c \in Boots : /\ Booted(c)' <=> Booted(c)
                         /\ Approval(c)' = Approval(c)
                         /\ c # b => pc'[c] = pc[c]
                         /\ Booted(c) /\ c # b =>
                              /\ Approval(c) # Approval(b)
                              /\ OwnRow(c)' = OwnRow(c)
    <2> SUFFICES ASSUME NEW c \in Boots
                 PROVE  /\ Booted(c)' <=> Booted(c)
                        /\ Approval(c)' = Approval(c)
                        /\ c # b => pc'[c] = pc[c]
                        /\ Booted(c) /\ c # b =>
                             /\ Approval(c) # Approval(b)
                             /\ OwnRow(c)' = OwnRow(c)
      OBVIOUS
    <2>1. /\ Booted(c)' <=> Booted(c)
          /\ Approval(c)' = Approval(c)
          /\ c # b => pc'[c] = pc[c]
      BY <1>0, <1>1 DEF Booted, Approval, TypeOK
    <2>2. ASSUME Booted(c), c # b
          PROVE  Approval(c) \in Approvals /\ Approval(c) # Approval(b)
      BY <2>2, <1>0 DEF BootOwnsItsRow, OwnRow, TypeOK, Approval, Profile
    <2> QED
      BY <2>1, <2>2, <1>4 DEF OwnRow
  <1>6. UnbootedIsInert'
    BY <1>0, <1>5 DEF UnbootedIsInert
  <1>7. BootOwnsItsRow'
    BY <1>0, <1>4, <1>5 DEF BootOwnsItsRow, OwnRow
  <1>8. RowOwnerBooted'
    <2> SUFFICES ASSUME NEW a \in Approvals, rows'[a] # None,
                        NEW c, c = rows'[a].owner
                 PROVE  Booted(c)' /\ Approval(c)' = a
      BY DEF RowOwnerBooted, Booted, Approval
    <2>1. c \in Boots
      BY <1>2 DEF TypeOK, Row
    <2>2. CASE a = Approval(b)
      BY <2>2, <1>0, <1>4, <1>5
    <2>3. CASE a # Approval(b)
      BY <2>1, <2>3, <1>4, <1>5 DEF RowOwnerBooted
    <2> QED
      BY <2>2, <2>3
  <1>9. Accounted'
    <2> SUFFICES ASSUME NEW c \in Boots, Booted(c)', NEW k \in Kinds
                 PROVE  IF pc'[c] = "spent" /\ kind'[c] = k
                        THEN OwnRow(c)'.used[k] = 1 /\ counters'[c][k] = 0
                        ELSE OwnRow(c)'.used[k] = counters'[c][k]
      BY DEF Accounted
    <2>1. CASE c = b
      BY <2>1, <1>0, <1>1, <1>4, <1>5 DEF Accounted, OwnRow, TypeOK
    <2>2. CASE c # b
      BY <2>2, <1>0, <1>5 DEF Accounted
    <2> QED
      BY <2>1, <2>2
  <1>10. RowsInOrder'
    <2> SUFFICES ASSUME NEW a \in Approvals, NEW k \in Kinds,
                        rows'[a] # None, rows'[a].used[k] = 1,
                        NEW j \in Before(k)
                 PROVE  rows'[a].used[j] = 1
      BY DEF RowsInOrder
    <2>1. j \in Kinds
      BY DEF Before, Kinds
    <2>2. CASE a # Approval(b)
      BY <2>2, <1>4 DEF RowsInOrder
    <2>3. CASE a = Approval(b)
      <3>1. mine # None
        BY <1>0, LeaseAssumption
      <3>2. CASE k = k0
        BY <2>1, <2>3, <3>2, <1>0, <1>4
      <3>3. CASE k # k0
        BY <2>1, <2>3, <3>1, <3>3, <1>0, <1>4 DEF RowsInOrder
      <3> QED
        BY <3>2, <3>3
    <2> QED
      BY <2>2, <2>3
  <1>11. UnfinishedIsLast'
    <2> SUFFICES ASSUME NEW c \in Boots, NEW k \in Kinds,
                        pc'[c] = "spent", kind'[c] \in Before(k)
                 PROVE  OwnRow(c)'.used[k] = 0
      BY DEF UnfinishedIsLast
    <2>1. CASE c # b
      <3>1. Booted(c)
        BY <2>1, <1>5 DEF UnbootedIsInert
      <3> QED
        BY <2>1, <3>1, <1>0, <1>5 DEF UnfinishedIsLast
    <2>2. CASE c = b
      <3>1. k # k0 /\ k0 \in Before(k)
        BY <2>2, <1>0 DEF Before, Kinds
      <3>2. mine.used[k] # 1
        BY <3>1, <1>0, LeaseAssumption DEF RowsInOrder
      <3>3. mine.used[k] = 0
        BY <3>2, <1>0 DEF Row
      <3> QED
        BY <2>2, <3>1, <3>3, <1>4, <1>5 DEF OwnRow
    <2> QED
      BY <2>1, <2>2
  <1> QED
    BY <1>2, <1>6, <1>7, <1>8, <1>9, <1>10, <1>11

(* What a returning call does to its boot's counters.                      *)
LEMMA CountedOnce ==
  ASSUME NEW own \in [Kinds -> Nat], NEW k \in Kinds
  PROVE  /\ Counted(own, k) \in [Kinds -> Nat]
         /\ Counted(own, k)[k] = own[k] + 1
         /\ \A j \in Kinds \ {k} : Counted(own, k)[j] = own[j]
  BY DEF Counted

(* A call returning: its counter catches up with its row.                  *)
LEMMA PerformStep ==
  ASSUME NEW b \in Boots, LeaseInv, Perform(b)
  PROVE  LeaseInv'
  <1> USE DEF LeaseInv
  <1> DEFINE k0 == kind[b]
  <1>1. /\ phase[b] = "open" /\ pc[b] = "spent" /\ Booted(b) /\ k0 \in Kinds
        /\ counters' = [counters EXCEPT ![b] = Counted(counters[b], k0)]
        /\ pc' = [pc EXCEPT ![b] = "idle"]
        /\ UNCHANGED <<wall, mono, rows, high, phase, profile, deadline, kind>>
    BY DEF Perform, ledgerVars, Booted, TypeOK
  <1>0. /\ counters[b] \in [Kinds -> Nat]
        /\ counters'[b] = Counted(counters[b], k0)
        /\ counters'[b] \in [Kinds -> Nat]
    BY <1>1, CountedOnce DEF TypeOK
  <1>2. TypeOK'
    <2>1. counters' \in [Boots -> [Kinds -> Nat]]
      BY <1>0, <1>1 DEF TypeOK
    <2> QED
      BY <1>1, <2>1 DEF TypeOK
  <1>3. \A c \in Boots : /\ Booted(c)' <=> Booted(c)
                         /\ Approval(c)' = Approval(c)
                         /\ OwnRow(c)' = OwnRow(c)
                         /\ c # b => pc'[c] = pc[c] /\ counters'[c] = counters[c]
    BY <1>1 DEF Booted, Approval, OwnRow, TypeOK
  <1>4. counters[b][k0] = 0 /\ OwnRow(b).used[k0] = 1
    BY <1>1 DEF Accounted
  <1>5. /\ pc'[b] = "idle" /\ counters'[b][k0] = 1
        /\ \A k \in Kinds \ {k0} : counters'[b][k] = counters[b][k]
    <2>1. counters[b][k0] + 1 = 1
      BY <1>4
    <2>2. pc'[b] = "idle"
      BY <1>1 DEF TypeOK
    <2> QED
      BY <1>0, <1>1, <2>1, <2>2, CountedOnce
  <1>6. UnbootedIsInert'
    BY <1>1, <1>3 DEF UnbootedIsInert
  <1>7. BootOwnsItsRow'
    BY <1>1, <1>3 DEF BootOwnsItsRow
  <1>8. RowOwnerBooted'
    <2> SUFFICES ASSUME NEW a \in Approvals, rows[a] # None
                 PROVE  Booted(rows[a].owner)' /\ Approval(rows[a].owner)' = a
      BY <1>1 DEF RowOwnerBooted, Booted, Approval
    <2>1. rows[a].owner \in Boots
      BY DEF TypeOK, Row
    <2> QED
      BY <1>1, <2>1, <1>3 DEF RowOwnerBooted
  <1>9. Accounted'
    <2> SUFFICES ASSUME NEW c \in Boots, Booted(c)', NEW k \in Kinds
                 PROVE  IF pc'[c] = "spent" /\ kind'[c] = k
                        THEN OwnRow(c)'.used[k] = 1 /\ counters'[c][k] = 0
                        ELSE OwnRow(c)'.used[k] = counters'[c][k]
      BY DEF Accounted
    <2>1. CASE c = b
      BY <2>1, <1>1, <1>3, <1>4, <1>5 DEF Accounted
    <2>2. CASE c # b
      BY <2>2, <1>1, <1>3 DEF Accounted
    <2> QED
      BY <2>1, <2>2
  <1>10. RowsInOrder'
    BY <1>1 DEF RowsInOrder
  <1>11. UnfinishedIsLast'
    BY <1>1, <1>3, <1>5 DEF UnfinishedIsLast
  <1> QED
    BY <1>2, <1>6, <1>7, <1>8, <1>9, <1>10, <1>11

(* A revocation changes the state of a row and nothing else of it.         *)
LEMMA RevokeStep ==
  ASSUME NEW a \in Approvals, LeaseInv, Revoke(a)
  PROVE  LeaseInv'
  <1> USE DEF LeaseInv
  <1>1. /\ rows[a] \in Row
        /\ rows' = [rows EXCEPT ![a] = [@ EXCEPT !.state = "REVOKED"]]
        /\ UNCHANGED <<wall, mono, high, phase, profile, deadline, counters, pc, kind>>
    BY DEF Revoke, gateVars, callVars, TypeOK
  <1>2. \A x \in Approvals :
           /\ rows[x] = None <=> rows'[x] = None
           /\ rows[x] # None => /\ rows'[x] \in Row
                               /\ rows'[x].owner = rows[x].owner
                               /\ rows'[x].used = rows[x].used
    <2>1. rows'[a] \in Row /\ rows'[a].owner = rows[a].owner
          /\ rows'[a].used = rows[a].used
      BY <1>1 DEF TypeOK, Row
    <2>2. \A x \in Approvals \ {a} : rows'[x] = rows[x]
      BY <1>1 DEF TypeOK
    <2> QED
      BY <2>1, <2>2, <1>1, LeaseAssumption DEF TypeOK
  <1>3. TypeOK'
    <2>1. rows' \in [Approvals -> Row \union {None}]
      BY <1>1, <1>2 DEF TypeOK
    <2> QED
      BY <2>1, <1>1 DEF TypeOK
  <1>4. \A c \in Boots : /\ Booted(c)' <=> Booted(c)
                         /\ Approval(c)' = Approval(c)
                         /\ Booted(c) => /\ Approval(c) \in Approvals
                                        /\ OwnRow(c) # None
                                        /\ OwnRow(c)' # None
                                        /\ OwnRow(c)'.owner = OwnRow(c).owner
                                        /\ OwnRow(c)'.used = OwnRow(c).used
    BY <1>1, <1>2 DEF Booted, Approval, OwnRow, BootOwnsItsRow, TypeOK, Profile
  <1>5. UnbootedIsInert'
    BY <1>1, <1>4 DEF UnbootedIsInert
  <1>6. BootOwnsItsRow'
    BY <1>1, <1>4 DEF BootOwnsItsRow
  <1>7. RowOwnerBooted'
    <2> SUFFICES ASSUME NEW x \in Approvals, rows'[x] # None,
                        NEW c, c = rows'[x].owner
                 PROVE  Booted(c)' /\ Approval(c)' = x
      BY DEF RowOwnerBooted, Booted, Approval
    <2>1. c \in Boots /\ rows[x] # None /\ rows[x].owner = c
      BY <1>2 DEF Row
    <2> QED
      BY <2>1, <1>4 DEF RowOwnerBooted
  <1>8. Accounted'
    BY <1>1, <1>4 DEF Accounted
  <1>9. RowsInOrder'
    BY <1>2 DEF RowsInOrder
  <1>10. UnfinishedIsLast'
    BY <1>1, <1>4 DEF UnfinishedIsLast, UnbootedIsInert
  <1> QED
    BY <1>3, <1>5, <1>6, <1>7, <1>8, <1>9, <1>10

(* LeaseInv is inductive.                                                  *)
LEMMA LeaseInvInductive == LeaseInv /\ [Next]_vars => LeaseInv'
  <1> SUFFICES ASSUME LeaseInv, [Next]_vars PROVE LeaseInv'
    OBVIOUS
  <1> USE DEF ledgerVars, gateVars, callVars
  <1>1. ASSUME NEW b \in Boots, NEW a \in Approvals, NEW e \in Time,
               BootApproved(b, a, e)
        PROVE  LeaseInv'
    BY <1>1, BootStep
  <1>2. ASSUME NEW b \in Boots, BootDenied(b)
        PROVE  LeaseInv'
    BY <1>2, QuietStep DEF BootDenied, LeaseInv, TypeOK, Booted
  <1>3. ASSUME NEW b \in Boots, Crash(b)
        PROVE  LeaseInv'
    BY <1>3, QuietStep DEF Crash, LeaseInv, TypeOK, Booted
  <1>4. ASSUME NEW b \in Boots, Poll(b)
        PROVE  LeaseInv'
    BY <1>4, QuietStep DEF Poll, LeaseInv, TypeOK, Booted, Later, Time
  <1>5. ASSUME NEW b \in Boots, NEW k \in Kinds, Check(b, k)
        PROVE  LeaseInv'
    BY <1>5, QuietStep DEF Check, CheckTo, Allows, LeaseInv, TypeOK, Booted, Later, Time
  <1>6. ASSUME NEW b \in Boots, CheckAck(b)
        PROVE  LeaseInv'
    BY <1>6, QuietStep DEF CheckAck, LeaseInv, TypeOK, Booted, Kinds
  <1>7. ASSUME NEW b \in Boots, Consume(b)
        PROVE  LeaseInv'
    BY <1>7, ConsumeStep
  <1>8. ASSUME NEW b \in Boots, ConsumeDenied(b)
        PROVE  LeaseInv'
    BY <1>8, QuietStep DEF ConsumeDenied, LeaseInv, TypeOK, Booted
  <1>9. ASSUME NEW b \in Boots, Perform(b)
        PROVE  LeaseInv'
    BY <1>9, PerformStep
  <1>10. ASSUME NEW a \in Approvals, Revoke(a)
         PROVE  LeaseInv'
    BY <1>10, RevokeStep
  <1>11. CASE Tick
    BY <1>11, QuietStep, LeaseAssumption DEF Tick, LeaseInv, TypeOK, Booted, Time
  <1>12. ASSUME NEW t \in Time, SetWallClock(t)
         PROVE  LeaseInv'
    BY <1>12, QuietStep DEF SetWallClock, LeaseInv, TypeOK, Booted
  <1>13. CASE UNCHANGED vars
    BY <1>13, QuietStep DEF vars, LeaseInv, TypeOK, Booted
  <1> QED
    BY <1>1, <1>2, <1>3, <1>4, <1>5, <1>6, <1>7, <1>8, <1>9, <1>10, <1>11,
       <1>12, <1>13 DEF Next

-----------------------------------------------------------------------------
(* The inductive invariant of the ledger and its gates: leases and rows in *)
(* bijection, and counters and rows apart by the unfinished call only.     *)
THEOREM LeaseInvariant == Spec => []LeaseInv
  BY InitLeaseInv, LeaseInvInductive, PTL DEF Spec

(* One attempt, one command and one acknowledgement per approval, made by  *)
(* one boot: the one-shot budget of ordinaryRuntime.ts, across restarts.   *)
THEOREM OneUseTheorem == Spec => []OneUsePerApproval
  <1>1. LeaseInv => OneUsePerApproval
    <2> SUFFICES ASSUME LeaseInv, NEW b \in Boots, NEW c \in Boots, NEW k \in Kinds
                 PROVE  /\ counters[b][k] <= 1
                        /\ Booted(b) /\ Booted(c) /\ Approval(b) = Approval(c) => b = c
      BY DEF OneUsePerApproval
    <2>1. CASE ~Booted(b)
      BY <2>1 DEF LeaseInv, UnbootedIsInert
    <2>2. CASE Booted(b)
      <3>1. OwnRow(b) \in Row
        BY <2>2 DEF LeaseInv, BootOwnsItsRow, OwnRow, Approval, TypeOK, Profile
      <3>2. counters[b][k] <= 1
        <4>1. OwnRow(b).used[k] \in {0, 1}
          BY <3>1 DEF Row
        <4> QED
          BY <4>1, <2>2 DEF LeaseInv, Accounted
      <3>3. ASSUME Booted(c), Approval(b) = Approval(c) PROVE b = c
        BY <2>2, <3>3 DEF LeaseInv, BootOwnsItsRow, OwnRow
      <3> QED
        BY <3>2, <3>3
    <2> QED
      BY <2>1, <2>2
  <1> QED
    BY <1>1, LeaseInvariant, PTL

(* The ledger is at or ahead of the wire, whenever a process dies.         *)
THEOREM LedgerAheadTheorem == Spec => []LedgerAheadOfWire
  <1>1. LeaseInv => LedgerAheadOfWire
    <2> SUFFICES ASSUME LeaseInv, NEW b \in Boots, NEW k \in Kinds, counters[b][k] # 0
                 PROVE  /\ Booted(b) /\ OwnRow(b) # None /\ OwnRow(b).owner = b
                        /\ OwnRow(b).used[k] = 1
      BY DEF LedgerAheadOfWire, OwnRow
    <2>1. Booted(b)
      BY DEF LeaseInv, UnbootedIsInert
    <2>2. OwnRow(b) # None /\ OwnRow(b).owner = b /\ OwnRow(b) \in Row
      BY <2>1 DEF LeaseInv, BootOwnsItsRow, OwnRow, Approval, TypeOK, Profile
    <2>3. OwnRow(b).used[k] \in {0, 1}
      BY <2>2 DEF Row
    <2> QED
      BY <2>1, <2>2, <2>3 DEF LeaseInv, Accounted
  <1> QED
    BY <1>1, LeaseInvariant, PTL

(* Attempt before command before acknowledgement, in memory and on disk.   *)
THEOREM UsesInOrderTheorem == Spec => []UsesInOrder
  <1>1. LeaseInv => UsesInOrder
    <2> SUFFICES ASSUME LeaseInv, NEW b \in Boots, NEW k \in Kinds,
                        counters[b][k] # 0, NEW j \in Before(k)
                 PROVE  counters[b][j] # 0
      BY DEF LeaseInv, RowsInOrder, UsesInOrder
    <2>1. j \in Kinds
      BY DEF Before, Kinds
    <2>2. Booted(b)
      BY DEF LeaseInv, UnbootedIsInert
    <2>3. OwnRow(b) # None /\ OwnRow(b) \in Row /\ Approval(b) \in Approvals
      BY <2>2 DEF LeaseInv, BootOwnsItsRow, OwnRow, Approval, TypeOK, Profile
    <2>4. ~(pc[b] = "spent" /\ kind[b] = k)
      BY <2>2 DEF LeaseInv, Accounted
    <2>5. OwnRow(b).used[k] = 1
      <3>1. OwnRow(b).used[k] \in {0, 1}
        BY <2>3 DEF Row
      <3> QED
        BY <3>1, <2>2, <2>4 DEF LeaseInv, Accounted
    <2>6. OwnRow(b).used[j] = 1
      BY <2>3, <2>5 DEF LeaseInv, RowsInOrder, OwnRow
    <2>7. ~(pc[b] = "spent" /\ kind[b] = j)
      BY <2>5 DEF LeaseInv, UnfinishedIsLast
    <2> QED
      BY <2>1, <2>2, <2>6, <2>7 DEF LeaseInv, Accounted
  <1> QED
    BY <1>1, LeaseInvariant, PTL

-----------------------------------------------------------------------------
(* The only steps that touch rows are a boot's, a consume and a revocation.*)
LEMMA RowsUntouched ==
  ASSUME [Next]_vars,
         \A b \in Boots, a \in Approvals, e \in Time : ~BootApproved(b, a, e),
         \A b \in Boots : ~Consume(b),
         \A a \in Approvals : ~Revoke(a)
  PROVE  rows' = rows
  BY DEF Next, vars, ledgerVars, gateVars, callVars, BootDenied, Crash, Poll, Check, CheckTo,
         CheckAck, ConsumeDenied, Perform, Tick, SetWallClock

(* A budget is spent only from a row that is neither revoked nor expired,  *)
(* and not behind the highwater mark.                                      *)
THEOREM SpentOnlyWhileValidTheorem == Spec => SpentOnlyWhileValid
  <1>1. ASSUME LeaseInv, [Next]_vars, NEW a \in Approvals, NEW k \in Kinds,
               rows[a] # None, rows[a].used[k] = 0, rows'[a].used[k] = 1
        PROVE  rows[a].state # "REVOKED" /\ wall < rows[a].expires /\ high <= wall
    <2>1. ASSUME NEW b \in Boots, NEW x \in Approvals, NEW e \in Time, BootApproved(b, x, e)
          PROVE  FALSE
      BY <1>1, <2>1 DEF BootApproved, Reserve, LeaseInv, TypeOK
    <2>2. ASSUME NEW x \in Approvals, Revoke(x)
          PROVE  FALSE
      <3>1. rows'[a].used = rows[a].used
        BY <1>1, <2>2 DEF Revoke, LeaseInv, TypeOK, Row
      <3> QED
        BY <1>1, <3>1
    <2>3. ASSUME NEW b \in Boots, Consume(b)
          PROVE  rows[a].state # "REVOKED" /\ wall < rows[a].expires /\ high <= wall
      <3>1. rows' = [rows EXCEPT ![Approval(b)] = Spent(@, kind[b])]
        BY <2>3 DEF Consume
      <3>2. a = Approval(b)
        BY <1>1, <3>1 DEF LeaseInv, TypeOK
      <3> QED
        BY <3>2, <2>3 DEF Consume, Spendable, Held
    <2>4. CASE rows' = rows
      BY <1>1, <2>4
    <2> QED
      BY <1>1, <2>1, <2>2, <2>3, <2>4, RowsUntouched
  <1>2. LeaseInv /\ [Next]_vars => [SpendIsValid]_vars
    BY <1>1 DEF SpendIsValid
  <1> QED
    BY <1>2, LeaseInvariant, PTL DEF Spec, SpentOnlyWhileValid

(* A row stays its owner's, and the ledger never goes back.                *)
THEOREM LedgerOnlyAdvancesTheorem == Spec => LedgerOnlyAdvances
  <1>1. ASSUME LeaseInv, [Next]_vars
        PROVE  high <= high'
    BY <1>1 DEF LeaseInv, TypeOK, Time, Later, Next, vars, ledgerVars, BootApproved, Reserve,
       BootDenied, Crash, Poll, Check, CheckTo, CheckAck, Consume, ConsumeDenied, Perform,
       Revoke, Tick, SetWallClock
  <1>2. ASSUME LeaseInv, [Next]_vars, NEW a \in Approvals, rows[a] # None
        PROVE  /\ rows'[a] # None
               /\ rows'[a].owner = rows[a].owner
               /\ rows'[a].expires = rows[a].expires
               /\ rows[a].state = "REVOKED" => rows'[a].state = "REVOKED"
               /\ \A k \in Kinds : rows[a].used[k] <= rows'[a].used[k]
    <2> DEFINE Goal == /\ rows'[a] # None
                       /\ rows'[a].owner = rows[a].owner
                       /\ rows'[a].expires = rows[a].expires
                       /\ rows[a].state = "REVOKED" => rows'[a].state = "REVOKED"
                       /\ \A k \in Kinds : rows[a].used[k] <= rows'[a].used[k]
    <2>1. rows[a] \in Row /\ \A k \in Kinds : rows[a].used[k] \in {0, 1}
      BY <1>2 DEF LeaseInv, TypeOK, Row
    <2>2. ASSUME rows'[a] = rows[a]
          PROVE  Goal
      BY <1>2, <2>1, <2>2
    <2>3. ASSUME NEW b \in Boots, NEW x \in Approvals, NEW e \in Time, BootApproved(b, x, e)
          PROVE  Goal
      <3>1. rows'[a] = rows[a]
        BY <1>2, <2>3 DEF BootApproved, Reserve, LeaseInv, TypeOK
      <3> QED
        BY <2>2, <3>1
    <2>4. ASSUME NEW x \in Approvals, Revoke(x)
          PROVE  Goal
      <3>1. CASE x # a
        <4>1. rows'[a] = rows[a]
          BY <2>4, <3>1 DEF Revoke, LeaseInv, TypeOK
        <4> QED
          BY <2>2, <4>1
      <3>2. CASE x = a
        <4>1. rows'[a] = [rows[a] EXCEPT !.state = "REVOKED"]
          BY <1>2, <2>4, <3>2 DEF Revoke, LeaseInv, TypeOK
        <4>2. /\ rows'[a] \in Row /\ rows'[a].owner = rows[a].owner
              /\ rows'[a].expires = rows[a].expires
              /\ rows'[a].state = "REVOKED" /\ rows'[a].used = rows[a].used
          BY <2>1, <4>1 DEF Row
        <4> QED
          BY <2>1, <4>2, LeaseAssumption
      <3> QED
        BY <3>1, <3>2
    <2>5. ASSUME NEW b \in Boots, Consume(b)
          PROVE  Goal
      <3>1. /\ rows' = [rows EXCEPT ![Approval(b)] = Spent(rows[Approval(b)], kind[b])]
            /\ kind[b] \in Kinds /\ rows[Approval(b)].state # "REVOKED"
            /\ rows[Approval(b)].used[kind[b]] = 0
        BY <1>2, <2>5 DEF Consume, Spendable, Held, LeaseInv, TypeOK
      <3>2. CASE Approval(b) # a
        <4>1. rows'[a] = rows[a]
          BY <3>1, <3>2, <1>2 DEF LeaseInv, TypeOK
        <4> QED
          BY <2>2, <4>1
      <3>3. CASE Approval(b) = a
        <4>1. rows'[a] = Spent(rows[a], kind[b])
          BY <1>2, <3>1, <3>3 DEF LeaseInv, TypeOK
        <4>2. /\ rows'[a] \in Row /\ rows'[a].owner = rows[a].owner
              /\ rows'[a].expires = rows[a].expires
              /\ rows'[a].used[kind[b]] = 1
              /\ \A k \in Kinds \ {kind[b]} : rows'[a].used[k] = rows[a].used[k]
          BY <2>1, <3>1, <4>1, SpentRow
        <4>3. \A k \in Kinds : rows[a].used[k] <= rows'[a].used[k]
          BY <2>1, <4>2
        <4> QED
          BY <3>1, <3>3, <4>2, <4>3, LeaseAssumption
      <3> QED
        BY <3>2, <3>3
    <2> HIDE DEF Goal
    <2>6. Goal
      BY <1>2, <2>2, <2>3, <2>4, <2>5, RowsUntouched
    <2> QED
      BY <2>6 DEF Goal
  <1>3. LeaseInv /\ [Next]_vars => [LedgerAdvances]_vars
    BY <1>1, <1>2 DEF LedgerAdvances
  <1> QED
    BY <1>3, LeaseInvariant, PTL DEF Spec, LedgerOnlyAdvances

-----------------------------------------------------------------------------
(***************************************************************************)
(* The refinement of OneShotApproval.                                      *)
(***************************************************************************)

Holder == [a \in Approvals |-> IF rows[a] = None THEN None ELSE rows[a].owner]

Users(a, k) == {b \in Boots : Booted(b) /\ Approval(b) = a /\ counters[b][k] # 0}

UsersOf == [a \in Approvals |-> [k \in Kinds |-> Users(a, k)]]

(* Steps that keep every row's owner and every boot's uses are stutters.   *)
LEMMA StutterStep ==
  ASSUME UNCHANGED <<profile, counters>>,
         \A b \in Boots : Booted(b)' <=> Booted(b),
         \A a \in Approvals : /\ rows'[a] = None <=> rows[a] = None
                              /\ rows[a] # None => rows'[a].owner = rows[a].owner
  PROVE  UNCHANGED <<Holder, UsersOf>>
  <1>1. Holder' = Holder
    BY DEF Holder
  <1>2. \A a \in Approvals, k \in Kinds : Users(a, k)' = Users(a, k)
    BY DEF Users, Approval
  <1>3. UsersOf' = UsersOf
    BY <1>2 DEF UsersOf
  <1> QED
    BY <1>1, <1>3

LEMMA InitRefines == Init => Promise!AbsInit
  <1> SUFFICES ASSUME Init PROVE Promise!AbsInit
    OBVIOUS
  <1>1. Holder = [a \in Approvals |-> None]
    BY DEF Holder, Init
  <1>2. \A a \in Approvals, k \in Kinds : Users(a, k) = {}
    BY DEF Users, Booted, Init
  <1>3. UsersOf = [a \in Approvals |-> [k \in Kinds |-> {}]]
    BY <1>2 DEF UsersOf
  <1> QED
    BY <1>1, <1>3 DEF Promise!AbsInit, Promise!Kinds, Kinds, Holder, UsersOf, Users

(* A boot's reservation hands it the approval.                             *)
LEMMA BootRefines ==
  ASSUME LeaseInv, NEW b \in Boots, NEW a \in Approvals, NEW e \in Time,
         BootApproved(b, a, e)
  PROVE  Promise!Hand(a, b)
  <1>1. /\ rows[a] = None /\ ~Booted(b) /\ Booted(b)' /\ b # None
        /\ counters' = counters /\ profile[b] = None
        /\ \A k \in Kinds : counters[b][k] = 0
    BY LeaseAssumption DEF BootApproved, Reserve, LeaseInv, TypeOK, Booted, UnbootedIsInert
  <1>2. /\ rows'[a].owner = b /\ rows'[a] # None
        /\ \A x \in Approvals \ {a} : rows'[x] = rows[x]
    <2>1. rows' \in [Approvals -> Row \union {None}]
      BY BootStep DEF LeaseInv, TypeOK
    <2>2. rows'[a].owner = b /\ \A x \in Approvals \ {a} : rows'[x] = rows[x]
      BY DEF BootApproved, Reserve, LeaseInv, TypeOK
    <2>3. rows'[a] # None
      BY BootStep, <1>1 DEF LeaseInv, BootOwnsItsRow, OwnRow, Approval, BootApproved, Reserve, TypeOK
    <2> QED
      BY <2>2, <2>3
  <1>3. \A c \in Boots \ {b} : (Booted(c)' <=> Booted(c)) /\ profile'[c] = profile[c]
    BY DEF BootApproved, Reserve, LeaseInv, TypeOK, Booted
  <1>4. Holder[a] = None /\ Holder' = [Holder EXCEPT ![a] = b]
    BY <1>1, <1>2 DEF Holder
  <1>5. \A x \in Approvals, k \in Kinds : Users(x, k)' = Users(x, k)
    BY <1>1, <1>3 DEF Users, Approval
  <1>6. UsersOf' = UsersOf
    BY <1>5 DEF UsersOf
  <1> QED
    BY <1>4, <1>6 DEF Promise!Hand, Promise!Kinds, Kinds, Holder, UsersOf, Users

(* A returning call uses its budget for the first time.                    *)
LEMMA PerformRefines ==
  ASSUME LeaseInv, NEW b \in Boots, Perform(b),
         NEW a0, a0 = Approval(b), NEW k0, k0 = kind[b]
  PROVE  Promise!Use(a0, k0)
  <1>1. /\ Booted(b) /\ pc[b] = "spent" /\ k0 \in Kinds
        /\ UNCHANGED <<rows, phase, profile, kind>>
        /\ counters' = [counters EXCEPT ![b] = Counted(counters[b], k0)]
        /\ counters[b] \in [Kinds -> Nat]
    BY DEF Perform, ledgerVars, Booted, LeaseInv, TypeOK
  <1>2. a0 \in Approvals /\ rows[a0] # None /\ rows[a0].owner = b
    BY <1>1 DEF LeaseInv, BootOwnsItsRow, OwnRow, Approval, TypeOK, Profile
  <1>3. \A c \in Boots : Booted(c) /\ Approval(c) = a0 => c = b
    BY <1>1, <1>2 DEF LeaseInv, BootOwnsItsRow, OwnRow
  <1>4. counters[b][k0] = 0 /\ \A j \in Before(k0) : j \in Kinds /\ j # k0 /\ counters[b][j] = 1
    <2>1. counters[b][k0] = 0 /\ OwnRow(b).used[k0] = 1
      BY <1>1 DEF LeaseInv, Accounted
    <2>2. \A j \in Before(k0) : j \in Kinds /\ j # k0
      BY <1>1 DEF Before, Kinds
    <2>3. \A j \in Before(k0) : OwnRow(b).used[j] = 1
      BY <1>1, <1>2, <2>1 DEF LeaseInv, RowsInOrder, OwnRow
    <2> QED
      BY <1>1, <2>1, <2>2, <2>3 DEF LeaseInv, Accounted
  <1>5. /\ counters'[b][k0] = 1
        /\ \A k \in Kinds \ {k0} : counters'[b][k] = counters[b][k]
        /\ \A c \in Boots \ {b} : counters'[c] = counters[c]
    <2>1. counters'[b] = Counted(counters[b], k0)
      BY <1>1 DEF LeaseInv, TypeOK
    <2>2. \A c \in Boots \ {b} : counters'[c] = counters[c]
      BY <1>1 DEF LeaseInv, TypeOK
    <2>3. counters[b][k0] + 1 = 1
      BY <1>4
    <2> QED
      BY <1>1, <2>1, <2>2, <2>3, CountedOnce
  <1>6. Holder' = Holder /\ Holder[a0] = b /\ b # None
    BY <1>1, <1>2, LeaseAssumption DEF Holder
  <1>7. \A c \in Boots : /\ Booted(c)' <=> Booted(c)
                          /\ Approval(c)' = Approval(c)
    BY <1>1 DEF Booted, Approval
  <1>8. /\ Users(a0, k0) = {} /\ Users(a0, k0)' = {b}
        /\ \A j \in Before(k0) : j \in Kinds /\ Users(a0, j) = {b}
    <2>1. Users(a0, k0) = {}
      BY <1>3, <1>4 DEF Users
    <2>2. Users(a0, k0)' = {b}
      <3>1. Booted(b)' /\ Approval(b)' = a0 /\ counters'[b][k0] # 0
        <4>1. Booted(b)' /\ Approval(b)' = a0
          BY <1>1 DEF Booted, Approval
        <4>2. counters'[b][k0] # 0
          BY <1>5
        <4> QED
          BY <4>1, <4>2
      <3>2. \A c \in Boots : Booted(c)' /\ Approval(c)' = a0 => c = b
        BY <1>3, <1>7
      <3> QED
        BY <3>1, <3>2 DEF Users
    <2>3. \A j \in Before(k0) : Users(a0, j) = {b}
      BY <1>1, <1>3, <1>4 DEF Users
    <2> QED
      BY <1>4, <2>1, <2>2, <2>3
  <1>9. \A x \in Approvals, k \in Kinds : x # a0 \/ k # k0 => Users(x, k)' = Users(x, k)
    <2> SUFFICES ASSUME NEW x \in Approvals, NEW k \in Kinds, x # a0 \/ k # k0,
                        NEW c \in Boots
                 PROVE  (Booted(c) /\ Approval(c) = x /\ counters[c][k] # 0)'
                          <=> (Booted(c) /\ Approval(c) = x /\ counters[c][k] # 0)
      BY DEF Users
    <2>1. CASE c = b /\ k = k0
      BY <2>1, <1>7
    <2>2. CASE c # b \/ k # k0
      <3>1. counters'[c][k] = counters[c][k]
        BY <2>2, <1>5
      <3> QED
        BY <3>1, <1>1 DEF Booted, Approval
    <2> QED
      BY <2>1, <2>2
  <1>10. UsersOf' = [UsersOf EXCEPT ![a0] = [@ EXCEPT ![k0] = {b}]]
    <2>1. \A x \in Approvals \ {a0} : UsersOf'[x] = UsersOf[x]
      BY <1>9 DEF UsersOf
    <2>2. UsersOf'[a0] = [UsersOf[a0] EXCEPT ![k0] = {b}]
      <3>1. UsersOf'[a0][k0] = {b}
        BY <1>1, <1>2, <1>7, <1>8 DEF UsersOf
      <3>2. \A k \in Kinds \ {k0} : UsersOf'[a0][k] = UsersOf[a0][k]
        BY <1>2, <1>9 DEF UsersOf
      <3> QED
        BY <1>1, <1>2, <3>1, <3>2 DEF UsersOf
    <2> QED
      BY <1>2, <2>1, <2>2 DEF UsersOf
  <1>11. /\ UsersOf[a0][k0] = {}
         /\ \A j \in Before(k0) : UsersOf[a0][j] = {b}
    BY <1>1, <1>2, <1>8 DEF UsersOf
  <1> QED
    BY <1>6, <1>10, <1>11 DEF Promise!Use, Promise!Before, Before, Promise!Kinds, Kinds,
       Holder, UsersOf, Users

LEMMA NextRefines == LeaseInv /\ [Next]_vars => [Promise!AbsNext]_(Promise!absVars)
  <1> SUFFICES ASSUME LeaseInv, [Next]_vars
               PROVE  Promise!AbsNext \/ UNCHANGED <<Holder, UsersOf>>
    BY DEF Promise!absVars, Promise!Kinds, Kinds, Holder, UsersOf, Users
  <1> USE DEF ledgerVars, gateVars, callVars
  <1>1. ASSUME NEW b \in Boots, NEW a \in Approvals, NEW e \in Time, BootApproved(b, a, e)
        PROVE  Promise!AbsNext
    BY <1>1, BootRefines DEF Promise!AbsNext
  <1>2. ASSUME NEW b \in Boots, Perform(b)
        PROVE  Promise!AbsNext
    <2>1. Booted(b) /\ kind[b] \in Promise!Kinds
      BY <1>2 DEF Perform, LeaseInv, Booted, TypeOK, Kinds, Promise!Kinds
    <2>2. Approval(b) \in Approvals
      BY <1>2, <2>1 DEF LeaseInv, BootOwnsItsRow, OwnRow, Approval, TypeOK, Profile
    <2> QED
      BY <1>2, <2>1, <2>2, PerformRefines DEF Promise!AbsNext
  <1>3. ASSUME NEW b \in Boots, Consume(b)
        PROVE  UNCHANGED <<Holder, UsersOf>>
    <2>1. /\ rows' = [rows EXCEPT ![Approval(b)] = Spent(rows[Approval(b)], kind[b])]
          /\ Approval(b) \in Approvals /\ kind[b] \in Kinds
          /\ rows[Approval(b)] \in Row
          /\ UNCHANGED <<phase, profile, counters>>
      BY <1>3 DEF Consume, LeaseInv, Booted, BootOwnsItsRow, OwnRow, Approval, TypeOK, Profile
    <2>2. /\ rows'[Approval(b)] # None
          /\ rows'[Approval(b)].owner = rows[Approval(b)].owner
          /\ \A x \in Approvals \ {Approval(b)} : rows'[x] = rows[x]
      <3>1. rows'[Approval(b)] = Spent(rows[Approval(b)], kind[b])
        BY <2>1 DEF LeaseInv, TypeOK
      <3>2. \A x \in Approvals \ {Approval(b)} : rows'[x] = rows[x]
        BY <2>1 DEF LeaseInv, TypeOK
      <3> QED
        BY <2>1, <3>1, <3>2, SpentRow, LeaseAssumption
    <2>3. rows[Approval(b)] # None
      BY <2>1, LeaseAssumption
    <2> QED
      BY <2>1, <2>2, <2>3, StutterStep DEF Booted
  <1>4. ASSUME NEW a \in Approvals, Revoke(a)
        PROVE  UNCHANGED <<Holder, UsersOf>>
    <2>1. /\ rows[a] # None /\ rows[a] \in Row
          /\ UNCHANGED <<phase, profile, counters>>
      BY <1>4 DEF Revoke, LeaseInv, TypeOK
    <2>2. /\ rows'[a] \in Row
          /\ rows'[a].owner = rows[a].owner
          /\ \A x \in Approvals \ {a} : rows'[x] = rows[x]
      <3>1. rows'[a] = [rows[a] EXCEPT !.state = "REVOKED"]
        BY <1>4 DEF Revoke, LeaseInv, TypeOK
      <3>2. \A x \in Approvals \ {a} : rows'[x] = rows[x]
        BY <1>4 DEF Revoke, LeaseInv, TypeOK
      <3> QED
        BY <2>1, <3>1, <3>2 DEF Row
    <2> QED
      BY <2>1, <2>2, StutterStep, LeaseAssumption DEF Booted
  <1>5. ASSUME NEW b \in Boots, BootDenied(b) \/ Crash(b)
        PROVE  UNCHANGED <<Holder, UsersOf>>
    BY <1>5, StutterStep DEF BootDenied, Crash, Booted, LeaseInv, TypeOK
  <1>6. ASSUME NEW b \in Boots,
               Poll(b) \/ (\E k \in Kinds : Check(b, k)) \/ CheckAck(b) \/ ConsumeDenied(b)
        PROVE  UNCHANGED <<Holder, UsersOf>>
    BY <1>6, StutterStep DEF Poll, Check, CheckTo, CheckAck, ConsumeDenied, Booted
  <1>7. CASE Tick \/ (\E t \in Time : SetWallClock(t)) \/ UNCHANGED vars
    BY <1>7, StutterStep DEF Tick, SetWallClock, vars, Booted
  <1> QED
    BY <1>1, <1>2, <1>3, <1>4, <1>5, <1>6, <1>7 DEF Next

(* The ledger and its gates implement the one-shot approval, whatever      *)
(* crashes, revocations and clock changes happen.                          *)
THEOREM RefinementTheorem == Spec => ImplementsOneShotApproval
  BY InitRefines, NextRefines, LeaseInvariant, PTL
     DEF Spec, ImplementsOneShotApproval, Promise!AbsSpec

================================================================================
