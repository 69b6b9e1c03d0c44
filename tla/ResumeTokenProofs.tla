-------------------------- MODULE ResumeTokenProofs --------------------------
(***************************************************************************)
(* The resume of a token is once, is refused by name, and spares the next  *)
(* work item, for every set of callers and any number of troubles.         *)
(***************************************************************************)
EXTENDS ResumeToken, TLAPS

Inside    == Body \cup {"unlock"}
\* After the event, before the token is deleted.
Published == {"write_terminal", "consume"}
\* Where a caller may be while the token is consumed: he may go by its record only if he
\* could not read the terminal record, and has it back only if the record was left behind.
Refused(c) ==
    \/ Arrives(c) \/ Departs(c)
    \/ /\ unnamed \/ c \in unread
       /\ pc[c] = "read_meta" \/ (leftover /\ pc[c] = "rehydrate")

Switches ==
    /\ listed \in BOOLEAN /\ meta \in BOOLEAN /\ terminal \in BOOLEAN /\ due \in BOOLEAN
    /\ consumed \in BOOLEAN /\ leftover \in BOOLEAN /\ unnamed \in BOOLEAN
    /\ unguarded \in BOOLEAN

Types ==
    /\ lock \in Callers \cup {Nobody} /\ unread \subseteq Callers
    /\ ledger \in Item /\ item \in Item /\ followed \in {"no", "queued", "noted"}
    /\ pc \in [Callers -> Pcs] /\ answer \in [Callers -> Answers]
    /\ published \in Nat /\ revived \in Nat /\ failed \in Nat /\ troubles \in 0..MaxTroubles
    /\ failed <= troubles

\* The order of the steps of one caller.
Ordered ==
    /\ terminal \/ consumed => published > 0
    /\ item = "second" \/ followed # "no" => published > 0
    /\ \A c \in Callers :
          /\ pc[c] \in Published \cup {"drop_meta"} => published > 0
          /\ pc[c] = "consume" => unnamed \/ terminal

\* The lock excludes.
Alone == unguarded \/ \A c \in Callers : pc[c] \in Inside => lock = c

\* What is consumed is refused; its record is left behind, or about to be deleted.
Gone ==
    consumed /\ ~unguarded =>
        /\ ~listed
        /\ unnamed \/ terminal
        /\ meta => leftover \/ \E c \in Callers : pc[c] = "drop_meta"
        /\ \A c \in Callers : Refused(c)

\* A token that came back had left its record, and its terminal record could not be read.
Excused == revived > 0 => unguarded \/ (leftover /\ (unnamed \/ unread # {}))

\* Every event but the failed ones, and those of tokens that came back, belongs to the
\* consumption, or to who is about to consume.
Counted ==
    \/ unguarded
    \/ published <= failed + revived
    \/ /\ published <= failed + revived + 1
       /\ consumed \/ \E c \in Callers : pc[c] \in Published

Inv == Switches /\ Types /\ Ordered /\ Alone /\ Gone /\ Excused /\ Counted

LEMMA InitInv == Init => Inv
  <1> SUFFICES ASSUME Init PROVE Inv
    OBVIOUS
  <1> USE CallerAssumption, TroubleAssumption DEF Init
  <1>1. Types
    <2>1. pc \in [Callers -> Pcs]
      BY DEF Pcs
    <2>2. answer \in [Callers -> Answers]
      BY DEF Answers
    <2> QED
      BY <2>1, <2>2 DEF Types, Item
  <1>3. Switches
    BY Zenon DEF Switches
  <1>2. Ordered /\ Alone /\ Gone /\ Excused /\ Counted
    BY DEF Ordered, Alone, Gone, Excused, Counted, Inside, Body, Published
  <1> QED
    BY <1>1, <1>2, <1>3 DEF Inv

\* Every step of the specification keeps the invariant.
LEMMA NextInv == Inv /\ [Next]_vars => Inv'
  <1> SUFFICES ASSUME Inv, [Next]_vars PROVE Inv'
    OBVIOUS
  <1> USE CallerAssumption, TroubleAssumption
  <1> USE DEF Inv, Switches, Types, Ordered, Alone, Gone, Excused, Counted, Inside, Published,
              Refused, Arrives, Departs, Body, Pcs, Answers, Item, Goto, Tell, Leave, Trouble,
              Rest, token, work, ghosts
  <1>1. ASSUME NEW c \in Callers, Come(c) PROVE Inv'
    <2>1. Switches'
      BY <1>1, Zenon DEF Come
    <2>2. Types'
      BY <1>1 DEF Come
    <2>3. Ordered'
      BY <1>1 DEF Come
    <2>4. Alone'
      BY <1>1 DEF Come
    <2>5. Gone'
      BY <1>1 DEF Come
    <2>6. Excused'
      BY <1>1 DEF Come
    <2>7. Counted'
      BY <1>1 DEF Come
    <2> QED
      BY <2>1, <2>2, <2>3, <2>4, <2>5, <2>6, <2>7
  <1>2. ASSUME NEW c \in Callers, TakeLock(c) PROVE Inv'
    <2>1. Switches'
      BY <1>2, Zenon DEF TakeLock
    <2>2. Types'
      BY <1>2 DEF TakeLock
    <2>3. Ordered'
      BY <1>2 DEF TakeLock
    <2>4. Alone'
      BY <1>2 DEF TakeLock
    <2>5. Gone'
      BY <1>2 DEF TakeLock
    <2>6. Excused'
      BY <1>2 DEF TakeLock
    <2>7. Counted'
      BY <1>2 DEF TakeLock
    <2> QED
      BY <2>1, <2>2, <2>3, <2>4, <2>5, <2>6, <2>7
  <1>3. ASSUME NEW c \in Callers, Unlock(c) PROVE Inv'
    <2>1. Switches'
      BY <1>3, Zenon DEF Unlock
    <2>2. Types'
      BY <1>3 DEF Unlock
    <2>3. Ordered'
      BY <1>3 DEF Unlock
    <2>4. Alone'
      BY <1>3 DEF Unlock
    <2>5. Gone'
      BY <1>3 DEF Unlock
    <2>6. Excused'
      BY <1>3 DEF Unlock
    <2>7. Counted'
      BY <1>3 DEF Unlock
    <2> QED
      BY <2>1, <2>2, <2>3, <2>4, <2>5, <2>6, <2>7
  <1>4. ASSUME NEW c \in Callers, Lookup(c) PROVE Inv'
    <2>1. Switches'
      BY <1>4, Zenon DEF Lookup
    <2>2. Types'
      BY <1>4 DEF Lookup
    <2>3. Ordered'
      BY <1>4 DEF Lookup
    <2>4. Alone'
      BY <1>4 DEF Lookup
    <2>5. Gone'
      BY <1>4 DEF Lookup
    <2>6. Excused'
      BY <1>4 DEF Lookup
    <2>7. Counted'
      BY <1>4 DEF Lookup
    <2> QED
      BY <2>1, <2>2, <2>3, <2>4, <2>5, <2>6, <2>7
  <1>5. ASSUME NEW c \in Callers, ReadTerminal(c) PROVE Inv'
    <2>1. Switches'
      BY <1>5, Zenon DEF ReadTerminal
    <2>2. Types'
      BY <1>5 DEF ReadTerminal
    <2>3. Ordered'
      BY <1>5 DEF ReadTerminal
    <2>4. Alone'
      BY <1>5 DEF ReadTerminal
    <2>5. Gone'
      BY <1>5 DEF ReadTerminal
    <2>6. Excused'
      BY <1>5 DEF ReadTerminal
    <2>7. Counted'
      BY <1>5 DEF ReadTerminal
    <2> QED
      BY <2>1, <2>2, <2>3, <2>4, <2>5, <2>6, <2>7
  <1>6. ASSUME NEW c \in Callers, ReadMeta(c) PROVE Inv'
    <2>1. Switches'
      BY <1>6, Zenon DEF ReadMeta
    <2>2. Types'
      BY <1>6 DEF ReadMeta
    <2>3. Ordered'
      BY <1>6 DEF ReadMeta
    <2>4. Alone'
      BY <1>6 DEF ReadMeta
    <2>5. Gone'
      BY <1>6 DEF ReadMeta
    <2>6. Excused'
      BY <1>6 DEF ReadMeta
    <2>7. Counted'
      BY <1>6 DEF ReadMeta
    <2> QED
      BY <2>1, <2>2, <2>3, <2>4, <2>5, <2>6, <2>7
  <1>7. ASSUME NEW c \in Callers, Rehydrate(c) PROVE Inv'
    <2>1. Switches'
      BY <1>7, Zenon DEF Rehydrate
    <2>2. Types'
      BY <1>7 DEF Rehydrate
    <2>3. Ordered'
      BY <1>7 DEF Rehydrate
    <2>4. Alone'
      BY <1>7 DEF Rehydrate
    <2>5. Gone'
      BY <1>7 DEF Rehydrate
    <2>6. Excused'
      BY <1>7 DEF Rehydrate
    <2>7. Counted'
      BY <1>7 DEF Rehydrate
    <2> QED
      BY <2>1, <2>2, <2>3, <2>4, <2>5, <2>6, <2>7
  <1>8. ASSUME NEW c \in Callers, Check(c) PROVE Inv'
    <2>1. Switches'
      BY <1>8, Zenon DEF Check
    <2>2. Types'
      BY <1>8 DEF Check
    <2>3. Ordered'
      BY <1>8 DEF Check
    <2>4. Alone'
      BY <1>8 DEF Check
    <2>5. Gone'
      BY <1>8 DEF Check
    <2>6. Excused'
      BY <1>8 DEF Check
    <2>7. Counted'
      BY <1>8 DEF Check
    <2> QED
      BY <2>1, <2>2, <2>3, <2>4, <2>5, <2>6, <2>7
  <1>9. ASSUME NEW c \in Callers, ExpireItem(c) PROVE Inv'
    <2>1. Switches'
      BY <1>9, Zenon DEF ExpireItem
    <2>2. Types'
      BY <1>9 DEF ExpireItem
    <2>3. Ordered'
      BY <1>9 DEF ExpireItem
    <2>4. Alone'
      BY <1>9 DEF ExpireItem
    <2>5. Gone'
      BY <1>9 DEF ExpireItem
    <2>6. Excused'
      BY <1>9 DEF ExpireItem
    <2>7. Counted'
      BY <1>9 DEF ExpireItem
    <2> QED
      BY <2>1, <2>2, <2>3, <2>4, <2>5, <2>6, <2>7
  <1>10. ASSUME NEW c \in Callers, Forget(c) PROVE Inv'
    <2>1. Switches'
      BY <1>10, Zenon DEF Forget
    <2>2. Types'
      BY <1>10 DEF Forget
    <2>3. Ordered'
      BY <1>10 DEF Forget
    <2>4. Alone'
      BY <1>10 DEF Forget
    <2>5. Gone'
      BY <1>10 DEF Forget
    <2>6. Excused'
      BY <1>10 DEF Forget
    <2>7. Counted'
      BY <1>10 DEF Forget
    <2> QED
      BY <2>1, <2>2, <2>3, <2>4, <2>5, <2>6, <2>7
  <1>11. ASSUME NEW c \in Callers, Publish(c) PROVE Inv'
    <2>1. Switches'
      BY <1>11, Zenon DEF Publish
    <2>2. Types'
      BY <1>11 DEF Publish
    <2>3. Ordered'
      BY <1>11 DEF Publish
    <2>4. Alone'
      BY <1>11 DEF Publish
    <2>5. Gone'
      BY <1>11 DEF Publish
    <2>6. Excused'
      BY <1>11 DEF Publish
    <2>7. Counted'
      BY <1>11 DEF Publish
    <2> QED
      BY <2>1, <2>2, <2>3, <2>4, <2>5, <2>6, <2>7
  <1>12. ASSUME NEW c \in Callers, WriteTerminal(c) PROVE Inv'
    <2>1. Switches'
      BY <1>12, Zenon DEF WriteTerminal
    <2>2. Types'
      BY <1>12 DEF WriteTerminal
    <2>3. Ordered'
      BY <1>12 DEF WriteTerminal
    <2>4. Alone'
      BY <1>12 DEF WriteTerminal
    <2>5. Gone'
      BY <1>12 DEF WriteTerminal
    <2>6. Excused'
      BY <1>12 DEF WriteTerminal
    <2>7. Counted'
      BY <1>12 DEF WriteTerminal
    <2> QED
      BY <2>1, <2>2, <2>3, <2>4, <2>5, <2>6, <2>7
  <1>13. ASSUME NEW c \in Callers, Consume(c) PROVE Inv'
    <2>1. Switches'
      BY <1>13, Zenon DEF Consume
    <2>2. Types'
      BY <1>13 DEF Consume
    <2>3. Ordered'
      BY <1>13 DEF Consume
    <2>4. Alone'
      BY <1>13 DEF Consume
    <2>5. Gone'
      <3> SUFFICES ASSUME consumed', ~unguarded' PROVE Gone'
        BY DEF Gone
      <3>1. ~unguarded /\ pc[c] = "consume"
        BY <1>13 DEF Consume
      <3>2. \A d \in Callers \ {c} : pc[d] \notin Inside
        BY <3>1
      <3>3. listed' = FALSE /\ pc' = [pc EXCEPT ![c] = "drop_meta"]
        BY <1>13, <3>1 DEF Consume
      <3>4. \A d \in Callers : pc'[d] = IF d = c THEN "drop_meta" ELSE pc[d]
        BY <3>3
      <3>5. \A d \in Callers : Refused(d)'
        BY <3>2, <3>4
      <3>6. unnamed' \/ terminal'
        BY <1>13, <3>1 DEF Consume
      <3>7. pc'[c] = "drop_meta"
        BY <3>4
      <3> QED
        BY <3>3, <3>5, <3>6, <3>7
    <2>6. Excused'
      BY <1>13 DEF Consume
    <2>7. Counted'
      BY <1>13 DEF Consume
    <2> QED
      BY <2>1, <2>2, <2>3, <2>4, <2>5, <2>6, <2>7
  <1>14. ASSUME NEW c \in Callers, DropMeta(c) PROVE Inv'
    <2>1. Switches'
      BY <1>14, Zenon DEF DropMeta
    <2>2. Types'
      BY <1>14 DEF DropMeta
    <2>3. Ordered'
      BY <1>14 DEF DropMeta
    <2>4. Alone'
      BY <1>14 DEF DropMeta
    <2>5. Gone'
      BY <1>14 DEF DropMeta
    <2>6. Excused'
      BY <1>14 DEF DropMeta
    <2>7. Counted'
      BY <1>14 DEF DropMeta
    <2> QED
      BY <2>1, <2>2, <2>3, <2>4, <2>5, <2>6, <2>7
  <1>15. ASSUME NEW c \in Callers, Crash(c) PROVE Inv'
    <2>1. Switches'
      BY <1>15, Zenon DEF Crash
    <2>2. Types'
      BY <1>15 DEF Crash
    <2>3. Ordered'
      BY <1>15 DEF Crash
    <2>4. Alone'
      BY <1>15 DEF Crash
    <2>5. Gone'
      BY <1>15 DEF Crash
    <2>6. Excused'
      BY <1>15 DEF Crash
    <2>7. Counted'
      BY <1>15 DEF Crash
    <2> QED
      BY <2>1, <2>2, <2>3, <2>4, <2>5, <2>6, <2>7
  <1>16. CASE Requeue
    <2>1. Switches'
      BY <1>16, Zenon DEF Requeue
    <2>2. Types'
      BY <1>16 DEF Requeue
    <2>3. Ordered'
      BY <1>16 DEF Requeue
    <2>4. Alone'
      BY <1>16 DEF Requeue
    <2>5. Gone'
      BY <1>16 DEF Requeue
    <2>6. Excused'
      BY <1>16 DEF Requeue
    <2>7. Counted'
      BY <1>16 DEF Requeue
    <2> QED
      BY <2>1, <2>2, <2>3, <2>4, <2>5, <2>6, <2>7
  <1>17. CASE NoteItem
    <2>1. Switches'
      BY <1>17, Zenon DEF NoteItem
    <2>2. Types'
      BY <1>17 DEF NoteItem
    <2>3. Ordered'
      BY <1>17 DEF NoteItem
    <2>4. Alone'
      BY <1>17 DEF NoteItem
    <2>5. Gone'
      BY <1>17 DEF NoteItem
    <2>6. Excused'
      BY <1>17 DEF NoteItem
    <2>7. Counted'
      BY <1>17 DEF NoteItem
    <2> QED
      BY <2>1, <2>2, <2>3, <2>4, <2>5, <2>6, <2>7
  <1>18. CASE Deadline
    <2>1. Switches'
      BY <1>18, Zenon DEF Deadline
    <2>2. Types'
      BY <1>18 DEF Deadline
    <2>3. Ordered'
      BY <1>18 DEF Deadline
    <2>4. Alone'
      BY <1>18 DEF Deadline
    <2>5. Gone'
      BY <1>18 DEF Deadline
    <2>6. Excused'
      BY <1>18 DEF Deadline
    <2>7. Counted'
      BY <1>18 DEF Deadline
    <2> QED
      BY <2>1, <2>2, <2>3, <2>4, <2>5, <2>6, <2>7
  <1>19. CASE HashLost
    <2>1. Switches'
      BY <1>19, Zenon DEF HashLost
    <2>2. Types'
      BY <1>19 DEF HashLost
    <2>3. Ordered'
      BY <1>19 DEF HashLost
    <2>4. Alone'
      BY <1>19 DEF HashLost
    <2>5. Gone'
      BY <1>19 DEF HashLost
    <2>6. Excused'
      BY <1>19 DEF HashLost
    <2>7. Counted'
      BY <1>19 DEF HashLost
    <2> QED
      BY <2>1, <2>2, <2>3, <2>4, <2>5, <2>6, <2>7
  <1>20. CASE TerminalExpires
    <2>1. Switches'
      BY <1>20, Zenon DEF TerminalExpires
    <2>2. Types'
      BY <1>20 DEF TerminalExpires
    <2>3. Ordered'
      BY <1>20 DEF TerminalExpires
    <2>4. Alone'
      BY <1>20 DEF TerminalExpires
    <2>5. Gone'
      BY <1>20 DEF TerminalExpires
    <2>6. Excused'
      BY <1>20 DEF TerminalExpires
    <2>7. Counted'
      BY <1>20 DEF TerminalExpires
    <2> QED
      BY <2>1, <2>2, <2>3, <2>4, <2>5, <2>6, <2>7
  <1>21. CASE LockLapses
    <2>1. Switches'
      BY <1>21, Zenon DEF LockLapses, Holds
    <2>2. Types'
      BY <1>21 DEF LockLapses, Holds
    <2>3. Ordered'
      BY <1>21 DEF LockLapses, Holds
    <2>4. Alone'
      BY <1>21 DEF LockLapses, Holds
    <2>5. Gone'
      BY <1>21 DEF LockLapses, Holds
    <2>6. Excused'
      BY <1>21 DEF LockLapses, Holds
    <2>7. Counted'
      BY <1>21 DEF LockLapses, Holds
    <2> QED
      BY <2>1, <2>2, <2>3, <2>4, <2>5, <2>6, <2>7
  <1>22. CASE UNCHANGED vars
    BY <1>22 DEF vars
  <1> QED
    BY <1>1, <1>2, <1>3, <1>4, <1>5, <1>6, <1>7, <1>8, <1>9, <1>10, <1>11, <1>12, <1>13,
       <1>14, <1>15, <1>16, <1>17, <1>18, <1>19, <1>20, <1>21, <1>22 DEF Next, Handles

LEMMA InvAlways == Spec => []Inv
  BY InitInv, NextInv, PTL DEF Spec

\* What each variable is; a token is consumed, and a terminal record written, only after the
\* resume was published.
THEOREM TokenTypeCorrect == Spec => []TokenTypeOK
  <1>1. Inv => TokenTypeOK
    BY TroubleAssumption DEF Inv, Switches, Types, Ordered, TokenTypeOK
  <1> QED
    BY <1>1, InvAlways, PTL

\* A suspended execution is resumed once, but for those who failed to delete the token and
\* for a token that came back; and one comes back only if its record was left behind and the
\* terminal record was missing, or could not be read.
THEOREM ResumeIsOnce == Spec => []ResumedOnce
  <1>1. Inv => ResumedOnce
    BY DEF Inv, Switches, Types, Excused, Counted, ResumedOnce
  <1> QED
    BY <1>1, InvAlways, PTL

\* Who comes after the consumption and can read the terminal record is refused by name and
\* does not bring the token back; who cannot brings it back only if its record was left behind.
THEOREM ConsumedIsKnown == Spec => []RefusalIsNamed
  <1>1. Inv => RefusalIsNamed
    BY DEF Inv, Switches, Types, Gone, Refused, Misled, RefusalIsNamed
  <1> QED
    BY <1>1, InvAlways, PTL

\* The work item of the next delegation is not put away with that of the last, unless the
\* resume is done again.
THEOREM NextItemIsSpared == Spec => NextItemStays
  <1>1. ASSUME Inv, [Next]_vars, item = "second", failed = 0, revived = 0, ~unguarded
        PROVE  item' = "second"
    <2>1. published > 0
      BY <1>1 DEF Inv, Ordered
    <2>2. consumed \/ \E c \in Callers : pc[c] \in Published
      BY <1>1, <2>1 DEF Inv, Switches, Types, Counted
    <2>3. \A c \in Callers : ~ExpireItem(c)
      BY <1>1, <2>2, CallerAssumption
         DEF Inv, Switches, Types, Alone, Gone, Refused, Arrives, Departs, Inside, Body, Published,
             ExpireItem
    <2> QED
      BY <1>1, <2>3
         DEF Next, Handles, Come, TakeLock, Unlock, Lookup, ReadTerminal, ReadMeta, Rehydrate,
             Check, Forget, Publish, WriteTerminal, Consume, DropMeta, Crash, Requeue, NoteItem,
             Deadline, HashLost, TerminalExpires, LockLapses, vars, work
  <1>2. Inv /\ [Next]_vars =>
            [item = "second" /\ failed = 0 /\ revived = 0 /\ ~unguarded => item' = "second"]_vars
    BY <1>1
  <1> QED
    BY <1>2, InvAlways, PTL DEF Spec, NextItemStays

=============================================================================
