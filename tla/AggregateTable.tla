--------------------------- MODULE AggregateTable ---------------------------
(***************************************************************************)
(* What the stream processor promises whoever reads its tables and topics:  *)
(* the row of a window is written once, from all readings of the window     *)
(* that were consumed and from no others, and only then is it told to       *)
(* anybody.  It may give a window up before it is written, or when another  *)
(* reading of the window comes after that; of a window it has given up it   *)
(* only promises that nothing else is mixed into it.  StreamAggregator      *)
(* implements this with windows in memory, flushes that overlap and fail,   *)
(* and restarts.                                                            *)
(***************************************************************************)
EXTENDS Integers

CONSTANTS Windows, Readings

VARIABLES
  belongs,  \* the readings of each window
  reached,  \* readings up to this one count as consumed
  table,    \* the row of each window: the deliveries it has added up
  told,     \* what was told of windows
  forfeit   \* the windows given up

table_vars == <<belongs, reached, table, told, forfeit>>

(* The readings a set of deliveries brought. *)
Of(deliveries) == {d.off : d \in deliveries}

Due(w) == {o \in belongs[w] : o <= reached}

Init ==
  /\ belongs \in [Windows -> SUBSET Readings]
  /\ reached = 0
  /\ table = [w \in Windows |-> {}]
  /\ told = {}
  /\ forfeit = {}

GiveUp(some) == forfeit \subseteq forfeit' /\ forfeit' \ forfeit \subseteq some

(* A reading is consumed.  What is stored of its windows is not final. *)
Consume ==
  LET its == {w \in Windows : reached + 1 \in belongs[w]}
  IN /\ reached' = reached + 1
     /\ GiveUp(its)
     /\ {w \in its : table[w] # {}} \subseteq forfeit'
     /\ UNCHANGED <<belongs, table, told>>

(* Readings will be consumed again, or windows not written are given up. *)
SetBack ==
  /\ reached' \in 0 .. reached
  /\ GiveUp({w \in Windows : belongs[w] # {} /\ table[w] = {}})
  /\ UNCHANGED <<belongs, table, told>>

(* Any number of windows are written. *)
Store ==
  /\ table' = [w \in Windows |-> table'[w]]
  /\ \A w \in Windows : table'[w] # table[w] =>
       /\ Of(table'[w]) \subseteq belongs[w]
       /\ w \notin forfeit => table[w] = {} /\ Due(w) \subseteq Of(table'[w])
  /\ UNCHANGED <<belongs, reached, told, forfeit>>

(* Any number of windows are told. *)
Tell ==
  /\ told \subseteq told'
  /\ \A p \in told' \ told :
       /\ p.key \in Windows /\ p.content # {}
       /\ Of(p.content) \subseteq belongs[p.key]
       /\ p.key \notin forfeit => p.content = table[p.key]
  /\ UNCHANGED <<belongs, reached, table, forfeit>>

Next == Consume \/ SetBack \/ Store \/ Tell

Spec == Init /\ [][Next]_table_vars
=============================================================================
