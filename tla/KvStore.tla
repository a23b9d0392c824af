------------------------------ MODULE KvStore ------------------------------
(***************************************************************************)
(* What the engine promises its clients, with no queue, log, memtable or   *)
(* background thread in sight: a store of versioned entries and a clock.   *)
(* A commit gives one group of updates consecutive sequence numbers, and   *)
(* either all of them or none of them become visible, in one step.  A      *)
(* reader fixes a sequence number when it starts and is answered with the  *)
(* newest entry of its key at that number, however much later the answer   *)
(* is computed.                                                            *)
(***************************************************************************)
EXTENDS Naturals, FiniteSets

CONSTANTS Readers,  \* the clients that read
          Keys

VARIABLES store,    \* the visible entries, records with fields key and seq
          clock,    \* the last sequence number handed out
          reading   \* per reader: [stage, key, snap, result]

vars == <<store, clock, reading>>

(* The newest entry of key k in S at sequence number s: its number, or 0.  *)
Newest(S, k, s) ==
  LET hits == {e.seq : e \in {x \in S : x.key = k /\ x.seq <= s}}
  IN  IF hits = {} THEN 0
      ELSE CHOOSE n \in hits : \A m \in hits : m <= n

Init ==
  /\ store = {}
  /\ clock = 0
  /\ reading = [r \in Readers |-> [stage |-> "idle", key |-> 0, snap |-> 0, result |-> 0]]

(* One group of updates, all of it or none of it.                          *)
Commit ==
  LET new == store' \ store IN
  /\ clock' >= clock
  /\ store \subseteq store'
  /\ \/ new = {}
     \/ /\ {e.seq : e \in new} = (clock + 1)..clock'
        /\ Cardinality(new) = clock' - clock
  /\ UNCHANGED reading

TakeSnapshot(r) ==
  /\ reading[r].stage = "idle"
  /\ reading' = [reading EXCEPT ![r].stage = "pinned", ![r].snap = clock]
  /\ UNCHANGED <<store, clock>>

BeginRead(r) ==
  /\ reading[r].stage \in {"idle", "pinned"}
  /\ \E k \in Keys :
       reading' = [reading EXCEPT ![r].stage = "reading", ![r].key = k,
                     ![r].snap = IF reading[r].stage = "idle" THEN clock ELSE @]
  /\ UNCHANGED <<store, clock>>

EndRead(r) ==
  /\ reading[r].stage = "reading"
  /\ reading' = [reading EXCEPT ![r].stage = "answered",
                   ![r].result = Newest(store, reading[r].key, reading[r].snap)]
  /\ UNCHANGED <<store, clock>>

Next == \/ Commit
        \/ \E r \in Readers : TakeSnapshot(r) \/ BeginRead(r) \/ EndRead(r)

Spec == Init /\ [][Next]_vars
=============================================================================
