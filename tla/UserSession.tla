----------------------------- MODULE UserSession ----------------------------
(***************************************************************************)
(* What the CLI mode promises about the user session, without its two      *)
(* secrets and its cache: at most one user is signed in; a login replaces  *)
(* the session at once, a logout or a revocation ends it at once, and      *)
(* whatever a call answers is about the identity in force at that moment.  *)
(*                                                                         *)
(* A valid session wins over the environment's credentials; an expired one *)
(* is used only when there are none, and only to ask for a token.          *)
(***************************************************************************)
CONSTANTS Call, Session, None, App

\* What a call can be asked to do, and whether the environment it runs in has
\* credentials.
Asked == [op : {"login", "logout", "token", "status", "purge"}, env : BOOLEAN]

VARIABLES
  current,  \* the signed-in session, or None
  expired,  \* TRUE when its recorded lifetime is over
  asked,    \* what each call in progress was asked to do, or None
  answer    \* the identity each call last answered with

vars == <<current, expired, asked, answer>>

\* The identity `auth status` reports.
Reported(c) == IF current # None /\ ~expired THEN current
               ELSE IF asked[c].env THEN App ELSE None

\* The identity a token is served for.
Served(c) == IF Reported(c) # None THEN Reported(c) ELSE current

Init == /\ current = None
        /\ expired = FALSE
        /\ asked = [c \in Call |-> None]
        /\ answer = [c \in Call |-> None]

\* The call is in progress and is one of these.
Doing(c, O) == asked[c] # None /\ asked[c].op \in O

Ask(c, o) == /\ asked[c] = None
             /\ asked' = [asked EXCEPT ![c] = o]
             /\ answer' = [answer EXCEPT ![c] = None]
             /\ UNCHANGED <<current, expired>>

\* The call ends and answers with an identity, or with none.
Finish(c, who) == /\ asked' = [asked EXCEPT ![c] = None]
                  /\ answer' = [answer EXCEPT ![c] = who]

\* A login that succeeds ends with its session in force.
SignIn(c) == /\ Doing(c, {"login"})
             /\ \E s \in Session : current' = s /\ Finish(c, s)
             /\ expired' = FALSE

\* A logout, or the revocation a token request meets, ends the session.
SignOut(c) == /\ Doing(c, {"logout", "token"})
              /\ current' = None
              /\ expired' = FALSE
              /\ UNCHANGED <<asked, answer>>

Expire == /\ current # None
          /\ expired' = TRUE
          /\ UNCHANGED <<current, asked, answer>>

\* A refresh token rotated by a token request starts a new lifetime.
Renew(c) == /\ Doing(c, {"token"})
            /\ current # None
            /\ expired' = FALSE
            /\ UNCHANGED <<current, asked, answer>>

Serve(c)  == Doing(c, {"token"}) /\ Finish(c, Served(c)) /\ UNCHANGED <<current, expired>>
Report(c) == Doing(c, {"status"}) /\ Finish(c, Reported(c)) /\ UNCHANGED <<current, expired>>

\* A logout does not end before the session has.
LoggedOut(c) == /\ Doing(c, {"logout"})
                /\ current = None
                /\ Finish(c, None)
                /\ UNCHANGED <<current, expired>>

\* A login or a token request that is refused, or a purge.
NoAnswer(c) == /\ Doing(c, {"login", "token", "purge"})
               /\ Finish(c, None)
               /\ UNCHANGED <<current, expired>>

Next == \/ \E c \in Call : \/ \E o \in Asked : Ask(c, o)
                           \/ SignIn(c) \/ SignOut(c) \/ Renew(c) \/ Serve(c)
                           \/ Report(c) \/ LoggedOut(c) \/ NoAnswer(c)
        \/ Expire

Spec == Init /\ [][Next]_vars
=============================================================================
