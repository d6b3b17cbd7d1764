------------------------------- MODULE Tokens -------------------------------
(***************************************************************************)
(* Access and refresh tokens (api/auth.py, api/routes/auth.py).  A token   *)
(* is signed and carries its kind, so nothing is kept of it but, in the    *)
(* memory of the process, that it was revoked.  Tokens are numbered in the *)
(* order they are made; passwords and roles are not told apart (no route   *)
(* asks for a role).                                                       *)
(***************************************************************************)
EXTENDS Naturals, Sequences

CONSTANT MaxTokens   \* bound: tokens made

ASSUME TokensAssumption == MaxTokens \in Nat

VARIABLES
  issued,      \* the kind of every token made
  expired,     \* tokens found expired
  blacklist,   \* _blacklist
  held,        \* tokens that reached a client
  over         \* history variable: tokens exchanged or logged out in this process

tokenVars == <<issued, expired, blacklist, held, over>>

InitTokens ==
  /\ issued = <<>>
  /\ expired = {} /\ blacklist = {} /\ held = {} /\ over = {}

Made == 1 .. Len(issued)

\* verify_token.  That the time of a token is over shows when it is verified.
Verifies(tok) == tok \in Made \ (blacklist \cup expired)
FindsExpired(tok) ==
  /\ tok \in Made \ blacklist
  /\ expired' = expired \cup {tok}
  /\ UNCHANGED <<issued, blacklist, held, over>>

\* A new pair: the numbers of its tokens are the next two.
MakesPair == issued' = issued \o <<"access", "refresh">>
NextPair  == {Len(issued) + 1, Len(issued) + 2}

LogsIn == MakesPair /\ UNCHANGED <<expired, blacklist, held, over>>

\* Mutant: the refresh token stays valid.
ExchangesKeeping(tok) ==
  /\ MakesPair
  /\ over' = over \cup {tok}
  /\ UNCHANGED <<expired, blacklist, held>>

\* refresh: the new pair is made before the old token is revoked, without an
\* await between.
Exchanges(tok) ==
  /\ MakesPair
  /\ blacklist' = blacklist \cup {tok}
  /\ over' = over \cup {tok}
  /\ UNCHANGED <<expired, held>>

Exchangeable(tok) == Verifies(tok) /\ issued[tok] = "refresh"

\* logout revokes whatever it is given, of either kind, and nothing else.
LogsOut(tok) ==
  /\ blacklist' = blacklist \cup {tok}
  /\ over' = over \cup {tok}
  /\ UNCHANGED <<issued, expired, held>>

\* get_current_user
Admits(tok) == Verifies(tok) /\ issued[tok] = "access"

Delivers(tokens) ==
  /\ held' = held \cup tokens
  /\ UNCHANGED <<issued, expired, blacklist, over>>

\* A new process verifies the old tokens, and knows of none that it was revoked.
TokensRestart ==
  /\ blacklist' = {} /\ over' = {}
  /\ UNCHANGED <<issued, expired, held>>
=============================================================================
