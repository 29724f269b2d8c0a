---------------------------- MODULE BrowserSession ----------------------------
(***************************************************************************)
(* The browser's side of the session: the interceptors of                  *)
(* frontend/src/api/client.ts over the store of frontend/src/stores.  Each *)
(* call answered 401 posts the refresh token that the store holds, once,   *)
(* and is sent again; whoever is refused clears the store.                 *)
(*                                                                         *)
(* Of the server it needs this (see AuthSession): a refresh reads whether  *)
(* the token is unused and the session open, and then marks the token and  *)
(* gives the next one, without reading again.  Two refreshes of one token  *)
(* that overlap both succeed.  One session in one page is modelled, from   *)
(* its login on; the store outlives the page.                              *)
(***************************************************************************)
EXTENDS Integers, FiniteSets

CONSTANTS
    Calls,          \* calls the page may have in flight
    MaxRefresh      \* bound on the refresh tokens of the session

ASSUME BrowserAssumption == MaxRefresh \in Nat \ {0}

Tokens == 0..MaxRefresh     \* 0 is no token

VARIABLES
    refreshToken,   \* of the store; persisted with the access token
    used, issued,   \* on the server: the refresh tokens used, the last one given
    open, fresh,    \* and whether the session is open, the last access token valid
    call,           \* state of each call
    holds,          \* the token each call posts, or its access token's number
    raced,          \* history: two refreshes in flight at once
    left,           \* history: the user has logged out, or an answer was lost
    dropped         \* history: the page was left in the middle of a refresh

browserVars == <<refreshToken, used, issued, open, fresh, call, holds, raced, left, dropped>>

CallStates == {"idle", "sent", "refresh", "rotate", "answered", "again"}
Posted == {"refresh", "rotate"}             \* the token is with the server
Refreshing == Posted \cup {"answered"}

BrowserInit ==
    /\ refreshToken = 1 /\ used = {} /\ issued = 1 /\ open = TRUE /\ fresh = TRUE
    /\ call = [c \in Calls |-> "idle"] /\ holds = [c \in Calls |-> 0]
    /\ raced = FALSE /\ left = FALSE /\ dropped = FALSE

(* A call's state becomes s, with token n. *)
Becomes(c, s, n) == call' = [call EXCEPT ![c] = s] /\ holds' = [holds EXCEPT ![c] = n]
ServerKeeps == UNCHANGED <<used, issued, open, fresh>>

-----------------------------------------------------------------------------
(* The request interceptor adds the access token of the store, which is    *)
(* the one that came with the refresh token.                               *)
SendCall(c) ==
    /\ call[c] = "idle" /\ refreshToken # 0
    /\ Becomes(c, "sent", refreshToken)
    /\ ServerKeeps /\ UNCHANGED <<refreshToken, raced, left, dropped>>

(* An access token older than the last may have expired or not.            *)
Accepted(n) == open /\ (n = issued => fresh)
Refused(n) == ~(open /\ fresh /\ n = issued)

(* Mutant of Answer: the token posted is the one the call was sent with.   *)
AnswerWithOld(c) ==
    /\ call[c] \in {"sent", "again"}
    /\ \/ /\ Accepted(holds[c]) \/ refreshToken = 0
          /\ Becomes(c, "idle", 0) /\ UNCHANGED raced
       \/ /\ Refused(holds[c]) /\ refreshToken # 0
          /\ Becomes(c, "refresh", holds[c])
          /\ raced' = (raced \/ \E d \in Calls \ {c} : call[d] \in Refreshing)
    /\ ServerKeeps /\ UNCHANGED <<refreshToken, left, dropped>>

(* The answer, or a 401: the response interceptor posts the refresh token  *)
(* of the store, unless this is the retry or there is none.                *)
Answer(c) ==
    /\ call[c] \in {"sent", "again"}
    /\ \/ /\ Accepted(holds[c]) \/ call[c] = "again" \/ refreshToken = 0
          /\ Becomes(c, "idle", 0) /\ UNCHANGED raced
       \/ /\ Refused(holds[c]) /\ call[c] = "sent" /\ refreshToken # 0
          /\ Becomes(c, "refresh", refreshToken)
          /\ raced' = (raced \/ \E d \in Calls \ {c} : call[d] \in Refreshing)
    /\ ServerKeeps /\ UNCHANGED <<refreshToken, left, dropped>>

(* The server's side of /auth/refresh: it reads the token and its session, *)
ReadToken(c) ==
    /\ call[c] = "refresh" /\ open /\ holds[c] \notin used
    /\ Becomes(c, "rotate", holds[c])
    /\ ServerKeeps /\ UNCHANGED <<refreshToken, raced, left, dropped>>

(* marks the token, used meanwhile or not, and gives a new one.            *)
Rotate(c) ==
    /\ call[c] = "rotate" /\ issued < MaxRefresh
    /\ used' = used \cup {holds[c]} /\ issued' = issued + 1 /\ fresh' = TRUE
    /\ Becomes(c, "answered", issued + 1)
    /\ UNCHANGED <<refreshToken, open, raced, left, dropped>>

(* setTokens, and the call is sent again. *)
SetTokens(c) ==
    /\ call[c] = "answered"
    /\ refreshToken' = holds[c]
    /\ Becomes(c, "again", holds[c])
    /\ ServerKeeps /\ UNCHANGED <<raced, left, dropped>>

(* The answer is lost on its way; the server may have used the token.      *)
AnswerLost(c) ==
    /\ \/ call[c] \in Posted /\ used' \in {used, used \cup {holds[c]}}
       \/ call[c] = "answered" /\ UNCHANGED used
    /\ left' = TRUE

(* Mutant of RefreshFails: the catch clause leaves the store as it is. *)
RefreshFailsQuietly(c) ==
    /\ \/ call[c] = "refresh" /\ ~(open /\ holds[c] \notin used) /\ UNCHANGED <<used, left>>
       \/ AnswerLost(c)
    /\ Becomes(c, "idle", 0)
    /\ UNCHANGED <<refreshToken, issued, open, fresh, raced, dropped>>

(* Refused, or the answer lost: the store is cleared. *)
RefreshFails(c) ==
    /\ \/ call[c] = "refresh" /\ ~(open /\ holds[c] \notin used) /\ UNCHANGED <<used, left>>
       \/ AnswerLost(c)
    /\ refreshToken' = 0
    /\ Becomes(c, "idle", 0)
    /\ UNCHANGED <<issued, open, fresh, raced, dropped>>

(* useAuth's logout posts first and clears the store whatever the answer;  *)
(* fetchUser and initialize clear it when their request fails.             *)
Logout ==
    /\ refreshToken # 0
    /\ open' \in {open, FALSE} /\ refreshToken' = 0 /\ left' = TRUE
    /\ UNCHANGED <<used, issued, fresh, call, holds, raced, dropped>>

(* The page is left or loaded again (window.location): its calls are       *)
(* forgotten, the store is not, and the server goes on with what was       *)
(* posted.                                                                 *)
Reload ==
    /\ \E done \in SUBSET {c \in Calls : call[c] \in Posted} :
          used' = used \cup {holds[c] : c \in done}
    /\ call' = [c \in Calls |-> "idle"] /\ holds' = [c \in Calls |-> 0]
    /\ dropped' = (dropped \/ (refreshToken # 0 /\ \E c \in Calls : call[c] \in Refreshing))
    /\ UNCHANGED <<refreshToken, issued, open, fresh, raced, left>>

(* The access token expires; the session is closed elsewhere. *)
AccessExpires ==
    fresh /\ fresh' = FALSE
    /\ UNCHANGED <<refreshToken, used, issued, open, call, holds, raced, left, dropped>>
SessionCloses ==
    open /\ open' = FALSE
    /\ UNCHANGED <<refreshToken, used, issued, fresh, call, holds, raced, left, dropped>>

BrowserNext ==
    \/ \E c \in Calls : SendCall(c) \/ Answer(c) \/ ReadToken(c) \/ Rotate(c) \/ SetTokens(c)
                        \/ RefreshFails(c)
    \/ Logout \/ Reload \/ AccessExpires \/ SessionCloses

BrowserSpec == BrowserInit /\ [][BrowserNext]_browserVars

-----------------------------------------------------------------------------
BrowserTypeOK ==
    /\ refreshToken \in Tokens /\ used \subseteq Tokens /\ issued \in Tokens
    /\ open \in BOOLEAN /\ fresh \in BOOLEAN
    /\ raced \in BOOLEAN /\ left \in BOOLEAN /\ dropped \in BOOLEAN
    /\ call \in [Calls -> CallStates] /\ holds \in [Calls -> Tokens]

(* While the session is open, a user whose calls do not refresh at the     *)
(* same time stays signed in: the store holds a token the server accepts,  *)
(* or a refresh is about to bring one.                                     *)
StaysSignedIn ==
    open /\ ~raced /\ ~left /\ ~dropped =>
        \/ refreshToken # 0 /\ refreshToken \notin used
        \/ \E c \in Calls : call[c] = "answered" /\ holds[c] \notin used

(* Even when they race, are refused or lose their answers, the page does   *)
(* not rest on a dead token: a token of the store that the server has      *)
(* used is about to be replaced or cleared by an answer that is on its     *)
(* way.  Only a page left in the middle of a refresh keeps one.            *)
NeverStranded ==
    refreshToken \in used /\ ~dropped => \E c \in Calls : call[c] = "answered"

(* The page and the server agree on the session. *)
BrowserConsistent == BrowserTypeOK /\ StaysSignedIn
=============================================================================
