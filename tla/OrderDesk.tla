------------------------------ MODULE OrderDesk ------------------------------
(***************************************************************************)
(* What the intake agent promises, without its stages, stores or retries.  *)
(* A desk keeps two books.  A document of an email is entered once, in one *)
(* of them; the customer then gets at most one letter about it; and when   *)
(* the email is closed nothing more is entered or sent on its account.     *)
(***************************************************************************)
EXTENDS Naturals

CONSTANTS Emails, Indices

VARIABLES
  book,     \* the books each document is entered in
  letters,  \* how many letters were sent about each document
  closed    \* emails that are done with

deskVars == <<book, letters, closed>>

Init ==
  /\ book = [d \in Emails \X Indices |-> {}]
  /\ letters = [d \in Emails \X Indices |-> 0]
  /\ closed = {}

Enter(d, which) ==
  /\ d[1] \notin closed /\ book[d] = {}
  /\ book' = [book EXCEPT ![d] = {which}]
  /\ UNCHANGED <<letters, closed>>

Send(d) ==
  /\ d[1] \notin closed /\ book[d] # {} /\ letters[d] = 0
  /\ letters' = [letters EXCEPT ![d] = 1]
  /\ UNCHANGED <<book, closed>>

Close(e) ==
  /\ closed' = closed \cup {e}
  /\ UNCHANGED <<book, letters>>

Next ==
  \/ \E d \in Emails \X Indices :
       Send(d) \/ \E which \in {"order", "exception"} : Enter(d, which)
  \/ \E e \in Emails : Close(e)

Spec == Init /\ [][Next]_deskVars
=============================================================================
