----------------------------- MODULE SharedDesk -----------------------------
(***************************************************************************)
(* What the intake agent still promises when several workers share the     *)
(* mailbox and race each other.  Each is a clerk at one desk.  A clerk     *)
(* enters a document at most once, and never over an entry that is there;  *)
(* so a document is in both books only when two clerks entered it.  A      *)
(* letter is about an entry of its book, and a clerk writes one about a    *)
(* document at most: the races cost a customer no more letters than there  *)
(* are clerks, whatever crashes and is done again.                         *)
(***************************************************************************)
EXTENDS Naturals

CONSTANTS Emails, Indices, Clerks, None

VARIABLES
  entered,  \* who entered each document in each book
  letters   \* how many letters on it each clerk sent, by the book they are about

deskVars == <<entered, letters>>

Books == {"order", "exception"}

Init ==
  /\ entered = [d \in Emails \X Indices |-> [b \in Books |-> None]]
  /\ letters = [d \in Emails \X Indices |-> [c \in Clerks |-> [b \in Books |-> 0]]]

Enter(c, d, which) ==
  /\ entered[d][which] = None
  /\ \A b \in Books : entered[d][b] # c
  /\ entered' = [entered EXCEPT ![d][which] = c]
  /\ UNCHANGED letters

Send(c, d, which) ==
  /\ entered[d][which] # None
  /\ \A b \in Books : letters[d][c][b] = 0
  /\ letters' = [letters EXCEPT ![d][c][which] = 1]
  /\ UNCHANGED entered

Next ==
  \E c \in Clerks, d \in Emails \X Indices, which \in Books :
    Enter(c, d, which) \/ Send(c, d, which)

Spec == Init /\ [][Next]_deskVars
=============================================================================
