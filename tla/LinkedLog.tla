------------------------------ MODULE LinkedLog ------------------------------
(***************************************************************************)
(* The log open in the dialog of the logs page, which the address names:   *)
(* opened from the list, followed from a link or by the history of the     *)
(* browser, and fetched when the list does not have it.                    *)
(*                                                                         *)
(* A link of the older form is the navigation it is turned into.           *)
(***************************************************************************)
EXTENDS Naturals, DashboardValues

CONSTANTS LogIds, MaxNavigations \* bound of the navigations

ASSUME LinkedLogAssumption == MaxNavigations \in Nat /\ "not a log" \notin LogIds

VARIABLES link,   \* the address, the dialog, the request that counts
          fetches \* requests of a log in flight

linkVars == << link, fetches >>

Invalid == "not a log"

linkedId(address) == IF address \in LogIds THEN address ELSE None

\* The effect of the linked log, for the dialog and the row that the list
\* has of it, if it has one.
Follow(l, listed) ==
  LET id == linkedId(l.address) IN
  CASE l.address = Invalid -> /\ link' = [l EXCEPT !.address = None, !.open = None, !.error = TRUE, !.fetch = 0]
                              /\ UNCHANGED fetches
    [] id = None           -> link' = [l EXCEPT !.open = None, !.fetch = 0] /\ UNCHANGED fetches
    [] id # None /\ l.open = id -> link' = [l EXCEPT !.fetch = 0] /\ UNCHANGED fetches
    [] id # None /\ l.open # id /\ listed  -> link' = [l EXCEPT !.open = id, !.fetch = 0] /\ UNCHANGED fetches
    [] OTHER -> /\ link' = [l EXCEPT !.fetch = l.moves]
                /\ fetches' = fetches \cup {[n |-> l.moves, id |-> id]}

LinkOpens == /\ link = [address |-> None, open |-> None, error |-> FALSE, fetch |-> 0, moves |-> 0]
             /\ fetches = {}

\* The address changes: the effect runs for another log only.
Go(l, address) ==
  /\ link.moves < MaxNavigations
  /\ LET there == [l EXCEPT !.address = address, !.moves = @ + 1] IN
     IF linkedId(address) = linkedId(link.address) THEN link' = there /\ UNCHANGED fetches
     ELSE \E listed \in BOOLEAN : Follow(there, listed)

\* The first run of the effect, the history of the browser, and a link.
Visit(address) == address # link.address /\ Go(link, address)

\* open(), close(): the dialog covers the list.
OpenLog(id) == link.open = None /\ Go([link EXCEPT !.error = FALSE, !.open = id], id)
CloseLog    == link.open # None /\ Go([link EXCEPT !.open = None], None)

Awaited(q) == q.n = link.fetch

LogArrives(q) == /\ fetches' = fetches \ {q}
                 /\ link' = IF Awaited(q) THEN [link EXCEPT !.open = q.id, !.error = FALSE, !.fetch = 0] ELSE link

\* The page goes back to the list.
LogFails(q) == /\ fetches' = fetches \ {q}
               /\ link' = IF Awaited(q) THEN [link EXCEPT !.address = None, !.open = None, !.error = TRUE, !.fetch = 0]
                          ELSE link

LinkNext == \/ \E address \in LogIds \cup {None, Invalid} : Visit(address)
            \/ \E id \in LogIds : OpenLog(id)
            \/ CloseLog
            \/ \E q \in fetches : LogArrives(q) \/ LogFails(q)

------------------------------------------------------------------------------
(* Properties                                                              *)

\* The open log is the one the address names, and one that is named is open
\* unless it is on its way: the address is always a link to what is shown
\* (useLinkedLog.ts:5-9, 28-68, Logs.tsx:80-82).
LinkIsShown == \/ link.open = linkedId(link.address)
               \/ \E q \in fetches : Awaited(q) /\ q.id = linkedId(link.address)
=============================================================================
