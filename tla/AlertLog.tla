------------------------------ MODULE AlertLog ------------------------------
(***************************************************************************)
(* What the alert service promises the people who act on alerts: a log of   *)
(* alerts, each acknowledged and resolved and never taken back, announced   *)
(* as nothing that it is not, and made only of a subject that is not silent *)
(* and was not alerted within the span, unless that alert was cut short.    *)
(* A subject is silent because an alert of it was published.  It is barred  *)
(* (its next alert is not skipped but thrown away, together with the rest   *)
(* of what came with it) because somebody has dealt with an alert of it, or *)
(* the service has failed over its last one.  AlertService implements this  *)
(* with markers in Redis, one call after the other, and operators between.  *)
(***************************************************************************)
EXTENDS Integers, Sequences

CONSTANT Span

VARIABLES
  now,        \* the wall clock
  rows,       \* the alerts, in the order they were made
  published,  \* those published
  told,       \* the <<row, status>> pairs announced
  silent,     \* the subjects that are not alerted
  barred,     \* those of them whose next alert is thrown away
  cut         \* the rows whose creation was cut short

log_vars == <<now, rows, published, told, silent, barred, cut>>

DealtWith(i) == rows[i].acknowledged \/ rows[i].resolved

(* A status may be announced of a row that has it. *)
IsTrue(i, status) ==
  \/ status = "resolved" /\ rows[i].resolved
  \/ status = "acknowledged" /\ rows[i].acknowledged

Init ==
  /\ now = 0 /\ rows = <<>>
  /\ published = {} /\ told = {} /\ silent = {} /\ barred = {} /\ cut = {}

(* Silence ends with time; nothing else does. *)
Pass ==
  /\ now' = now + 1
  /\ silent' \subseteq silent /\ barred' \subseteq barred
  /\ UNCHANGED <<rows, published, told, cut>>

Raise ==
  LET new == rows'[Len(rows) + 1]
  IN /\ Len(rows') > Len(rows) /\ rows' = Append(rows, new)
     /\ new.created = now /\ ~new.acknowledged /\ ~new.resolved
     /\ new.subject \notin silent
     /\ \A i \in DOMAIN rows \ cut :
          rows[i].subject = new.subject => now >= rows[i].created + Span
     /\ UNCHANGED <<now, published, told, silent, barred, cut>>

(* Any number of rows are acknowledged or resolved, by whomever. *)
Advance ==
  /\ Len(rows') = Len(rows)
  /\ \A i \in DOMAIN rows :
       /\ rows'[i].subject = rows[i].subject /\ rows'[i].created = rows[i].created
       /\ rows[i].acknowledged => rows'[i].acknowledged
       /\ rows[i].resolved => rows'[i].resolved
  /\ UNCHANGED <<now, published, told, silent, barred, cut>>

Publish ==
  /\ \E i \in DOMAIN rows : published' = published \cup {i}
  /\ UNCHANGED <<now, rows, told, silent, barred, cut>>

Announce ==
  /\ told \subseteq told'
  /\ \A t \in told' \ told : t[1] \in DOMAIN rows /\ IsTrue(t[1], t[2])
  /\ UNCHANGED <<now, rows, published, silent, barred, cut>>

Silence ==
  /\ \E i \in published : silent' = silent \cup {rows[i].subject}
  /\ UNCHANGED <<now, rows, published, told, barred, cut>>

(* Whoever deals with an alert may end the silence of its subject, or leave *)
(* it silent and barred.                                                    *)
Release ==
  /\ \E i \in DOMAIN rows :
       /\ DealtWith(i)
       /\ silent' \in {silent, silent \ {rows[i].subject}}
       /\ barred' \in {barred, barred \cup {rows[i].subject}}
  /\ UNCHANGED <<now, rows, published, told, cut>>

(* The last row is cut short before its subject is silent, or its subject   *)
(* is left barred.                                                          *)
Fail ==
  /\ rows # <<>>
  /\ LET last == Len(rows)
         subject == rows[last].subject
     IN \/ subject \notin silent /\ cut' = cut \cup {last} /\ barred' = barred
        \/ subject \in silent /\ barred' = barred \cup {subject} /\ cut' = cut
  /\ UNCHANGED <<now, rows, published, told, silent>>

Next == Pass \/ Raise \/ Advance \/ Publish \/ Announce \/ Silence \/ Release \/ Fail

Spec == Init /\ [][Next]_log_vars
=============================================================================
