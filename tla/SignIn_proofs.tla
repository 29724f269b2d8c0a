----------------------------- MODULE SignIn_proofs -----------------------------
(***************************************************************************)
(* Proofs about the ways in: the browser's end of a session, password      *)
(* reset, OAuth sign-in and the rate limiter, for any number of calls,     *)
(* requests, processes and rows.                                           *)
(***************************************************************************)
EXTENDS BrowserSession, PasswordReset, OAuthSignIn, RateLimit, Sums,
        FiniteSetTheorems, TLAPS

(* The other requests in progress, of any component. *)
LEMMA InProgressFacts ==
    ASSUME NEW reqs, NEW r, NEW q \in Workers, q # r, reqs[q].pc # "idle"
    PROVE  reqs[q] \in InProgress(reqs, r)
BY DEF InProgress, Busy

-----------------------------------------------------------------------------
(* The browser.  Two refreshes may post one token, but each answer brings  *)
(* a token of its own, which nobody can post before it is in the store.    *)
GivenTokens ==
    /\ refreshToken <= issued
    /\ \A n \in used : 0 < n /\ n <= issued
    /\ \A c \in Calls : call[c] \in Refreshing => 0 < holds[c] /\ holds[c] <= issued
    /\ \A c \in Calls : call[c] = "answered" =>
          /\ holds[c] \notin used /\ holds[c] # refreshToken
          /\ \A d \in Calls : d # c /\ call[d] \in Refreshing => holds[d] # holds[c]
InTurnPosts ==
    ~raced =>
        /\ \A c, d \in Calls : call[c] \in Refreshing /\ call[d] \in Refreshing => c = d
        /\ open /\ ~left /\ ~dropped =>
              /\ refreshToken # 0
              /\ \A c \in Calls : call[c] \in Posted => holds[c] = refreshToken
BrowserInv == BrowserTypeOK /\ GivenTokens /\ InTurnPosts /\ StaysSignedIn /\ NeverStranded

LEMMA BrowserInitial == BrowserInit => BrowserInv
<1> SUFFICES ASSUME BrowserInit PROVE BrowserInv
  OBVIOUS
<1>1. /\ refreshToken = 1 /\ used = {} /\ issued = 1 /\ open = TRUE /\ fresh = TRUE
      /\ raced = FALSE /\ left = FALSE /\ dropped = FALSE
      /\ call = [c \in Calls |-> "idle"] /\ holds = [c \in Calls |-> 0]
  BY DEF BrowserInit
<1>2. BrowserTypeOK
  <2>1. 0 \in Tokens /\ 1 \in Tokens /\ "idle" \in CallStates
    BY BrowserAssumption DEF Tokens, CallStates
  <2> QED BY <1>1, <2>1 DEF BrowserTypeOK
<1>3. GivenTokens /\ InTurnPosts /\ StaysSignedIn /\ NeverStranded
  BY <1>1 DEF GivenTokens, InTurnPosts, StaysSignedIn, NeverStranded, Refreshing, Posted
<1> QED BY <1>2, <1>3 DEF BrowserInv

(* A call becomes s with token n. *)
LEMMA CallMoved ==
    ASSUME BrowserTypeOK, NEW c \in Calls, NEW s \in CallStates, NEW n \in Tokens, Becomes(c, s, n)
    PROVE  /\ call' \in [Calls -> CallStates] /\ holds' \in [Calls -> Tokens]
           /\ call'[c] = s /\ holds'[c] = n
           /\ \A d \in Calls : d # c => call'[d] = call[d] /\ holds'[d] = holds[d]
BY DEF BrowserTypeOK, Becomes

LEMMA TokenNumbers ==
    ASSUME BrowserTypeOK
    PROVE  /\ refreshToken \in Nat /\ issued \in Nat /\ Tokens \subseteq Nat /\ 0 \in Tokens
           /\ used \subseteq Nat
           /\ \A c \in Calls : holds[c] \in Nat
           /\ {"idle", "sent", "refresh", "rotate", "answered", "again"} = CallStates
BY BrowserAssumption DEF BrowserTypeOK, Tokens, CallStates

LEMMA CallSends ==
    ASSUME BrowserInv, NEW c \in Calls, SendCall(c)
    PROVE  BrowserInv'
<1>1. /\ call[c] = "idle" /\ Becomes(c, "sent", refreshToken)
      /\ UNCHANGED <<used, issued, open, fresh, refreshToken, raced, left, dropped>>
  BY DEF SendCall, ServerKeeps
<1>2. /\ call' \in [Calls -> CallStates] /\ holds' \in [Calls -> Tokens]
      /\ call'[c] = "sent"
      /\ \A d \in Calls : d # c => call'[d] = call[d] /\ holds'[d] = holds[d]
  BY <1>1, CallMoved, TokenNumbers DEF BrowserInv, BrowserTypeOK
<1> QED BY <1>1, <1>2
     DEF BrowserInv, BrowserTypeOK, GivenTokens, InTurnPosts, StaysSignedIn, NeverStranded,
         Refreshing, Posted

LEMMA CallAnswered ==
    ASSUME BrowserInv, NEW c \in Calls, Answer(c)
    PROVE  BrowserInv'
<1>1. /\ call[c] \in {"sent", "again"}
      /\ UNCHANGED <<used, issued, open, fresh, refreshToken, left, dropped>>
  BY DEF Answer, ServerKeeps
<1>2. CASE Becomes(c, "idle", 0) /\ UNCHANGED raced
  <2>1. /\ call' \in [Calls -> CallStates] /\ holds' \in [Calls -> Tokens]
        /\ call'[c] = "idle"
        /\ \A d \in Calls : d # c => call'[d] = call[d] /\ holds'[d] = holds[d]
    BY <1>2, CallMoved, TokenNumbers DEF BrowserInv
  <2> QED BY <1>1, <1>2, <2>1
       DEF BrowserInv, BrowserTypeOK, GivenTokens, InTurnPosts, StaysSignedIn, NeverStranded,
           Refreshing, Posted
<1>3. CASE /\ refreshToken # 0 /\ Becomes(c, "refresh", refreshToken)
           /\ raced' = (raced \/ \E d \in Calls \ {c} : call[d] \in Refreshing)
  <2>1. /\ call' \in [Calls -> CallStates] /\ holds' \in [Calls -> Tokens]
        /\ call'[c] = "refresh" /\ holds'[c] = refreshToken
        /\ \A d \in Calls : d # c => call'[d] = call[d] /\ holds'[d] = holds[d]
    BY <1>3, CallMoved, TokenNumbers DEF BrowserInv, BrowserTypeOK
  <2>2. BrowserTypeOK'
    BY <1>1, <1>3, <2>1 DEF BrowserInv, BrowserTypeOK
  <2>3. 0 < refreshToken
    BY <1>3, TokenNumbers DEF BrowserInv
  <2>4. GivenTokens'
    BY <1>1, <2>1, <2>3 DEF BrowserInv, GivenTokens, Refreshing, Posted
  <2>5. ~raced' => \A d \in Calls : d # c => call[d] \notin Refreshing
    BY <1>3
  <2>6. InTurnPosts' /\ StaysSignedIn'
    BY <1>1, <1>3, <2>1, <2>5
       DEF BrowserInv, InTurnPosts, StaysSignedIn, Refreshing, Posted
  <2>7. NeverStranded'
    BY <1>1, <2>1 DEF BrowserInv, NeverStranded
  <2> QED BY <2>2, <2>4, <2>6, <2>7 DEF BrowserInv
<1> QED BY <1>2, <1>3 DEF Answer

LEMMA TokenRead ==
    ASSUME BrowserInv, NEW c \in Calls, ReadToken(c)
    PROVE  BrowserInv'
<1>1. /\ call[c] = "refresh" /\ Becomes(c, "rotate", holds[c])
      /\ UNCHANGED <<used, issued, open, fresh, refreshToken, raced, left, dropped>>
  BY DEF ReadToken, ServerKeeps
<1>2. /\ call' \in [Calls -> CallStates] /\ holds' \in [Calls -> Tokens]
      /\ call'[c] = "rotate" /\ \A d \in Calls : holds'[d] = holds[d]
      /\ \A d \in Calls : d # c => call'[d] = call[d]
  BY <1>1, CallMoved, TokenNumbers DEF BrowserInv, BrowserTypeOK
<1>3. /\ \A d \in Calls : call'[d] \in Refreshing <=> call[d] \in Refreshing
      /\ \A d \in Calls : call'[d] \in Posted <=> call[d] \in Posted
      /\ \A d \in Calls : call'[d] = "answered" <=> call[d] = "answered"
  BY <1>1, <1>2 DEF Refreshing, Posted
<1> QED BY <1>1, <1>2, <1>3
     DEF BrowserInv, BrowserTypeOK, GivenTokens, InTurnPosts, StaysSignedIn, NeverStranded

LEMMA TokenRotates ==
    ASSUME BrowserInv, NEW c \in Calls, Rotate(c)
    PROVE  BrowserInv'
<1>1. /\ call[c] = "rotate" /\ used' = used \cup {holds[c]} /\ fresh' = TRUE
      /\ UNCHANGED <<open, refreshToken, raced, left, dropped>>
  BY DEF Rotate
<1>2. PICK n \in Tokens : n = issued + 1 /\ issued' = n /\ Becomes(c, "answered", n)
  BY BrowserAssumption DEF Rotate, BrowserInv, BrowserTypeOK, Tokens
<1>3. /\ call' \in [Calls -> CallStates] /\ holds' \in [Calls -> Tokens]
      /\ call'[c] = "answered" /\ holds'[c] = n
      /\ \A d \in Calls : d # c => call'[d] = call[d] /\ holds'[d] = holds[d]
  BY <1>2, CallMoved, TokenNumbers DEF BrowserInv
<1>4. BrowserTypeOK'
  BY <1>1, <1>2, <1>3 DEF BrowserInv, BrowserTypeOK
<1>5. GivenTokens'
  <2>1. call[c] \in Refreshing /\ 0 < holds[c] /\ holds[c] <= issued
    BY <1>1 DEF BrowserInv, GivenTokens, Refreshing, Posted
  <2>2. refreshToken < n /\ \A m \in used' : 0 < m /\ m < n
    BY <1>1, <1>2, <2>1, TokenNumbers DEF BrowserInv, GivenTokens
  <2>3. 0 < n /\ \A d \in Calls : d # c /\ call[d] \in Refreshing => 0 < holds[d] /\ holds[d] < n
    BY <1>2, TokenNumbers DEF BrowserInv, GivenTokens
  <2>4. ASSUME NEW d \in Calls, d # c, call'[d] = "answered"
        PROVE  holds'[d] \notin used'
    BY <1>1, <1>3, <2>1, <2>4 DEF BrowserInv, GivenTokens
  <2>5. n \notin used' /\ n # refreshToken
    BY <2>2, TokenNumbers DEF BrowserInv
  <2>6. refreshToken <= n /\ (\A m \in used' : m <= n)
        /\ \A d \in Calls : call'[d] \in Refreshing => 0 < holds'[d] /\ holds'[d] <= n
    BY <1>1, <1>2, <1>3, <2>2, <2>3, <2>1, TokenNumbers DEF BrowserInv
  <2>7. ASSUME NEW d \in Calls, call'[d] = "answered"
        PROVE  \A e \in Calls : e # d /\ call'[e] \in Refreshing => holds'[e] # holds'[d]
    <3>1. \A e \in Calls : e # c /\ call[e] \in Refreshing => holds[e] # n
      BY <2>3, TokenNumbers DEF BrowserInv
    <3>2. d # c => call[d] = "answered" /\ call[d] \in Refreshing
      BY <1>3, <2>7 DEF Refreshing
    <3> QED BY <1>3, <3>1, <3>2 DEF BrowserInv, GivenTokens
  <2>8. \A d \in Calls : call'[d] = "answered" => holds'[d] \notin used' /\ holds'[d] # refreshToken
    BY <1>3, <2>4, <2>5 DEF BrowserInv, GivenTokens
  <2> QED BY <1>1, <1>2, <2>2, <2>6, <2>7, <2>8 DEF GivenTokens
<1>6. InTurnPosts'
  BY <1>1, <1>2, <1>3 DEF BrowserInv, InTurnPosts, Refreshing, Posted
<1>7. StaysSignedIn' /\ NeverStranded'
  BY <1>3, <1>5 DEF GivenTokens, StaysSignedIn, NeverStranded
<1> QED BY <1>4, <1>5, <1>6, <1>7 DEF BrowserInv

LEMMA StoreSet ==
    ASSUME BrowserInv, NEW c \in Calls, SetTokens(c)
    PROVE  BrowserInv'
<1>1. /\ call[c] = "answered" /\ refreshToken' = holds[c] /\ Becomes(c, "again", holds[c])
      /\ UNCHANGED <<used, issued, open, fresh, raced, left, dropped>>
  BY DEF SetTokens, ServerKeeps
<1>2. /\ call[c] \in Refreshing /\ 0 < holds[c] /\ holds[c] <= issued /\ holds[c] \notin used
      /\ \A d \in Calls : d # c /\ call[d] \in Refreshing => holds[d] # holds[c]
  BY <1>1 DEF BrowserInv, GivenTokens, Refreshing
<1>3. /\ call' \in [Calls -> CallStates] /\ holds' \in [Calls -> Tokens]
      /\ call'[c] = "again"
      /\ \A d \in Calls : d # c => call'[d] = call[d] /\ holds'[d] = holds[d]
  BY <1>1, CallMoved, TokenNumbers DEF BrowserInv, BrowserTypeOK
<1>4. BrowserTypeOK'
  BY <1>1, <1>3 DEF BrowserInv, BrowserTypeOK
<1>5. GivenTokens'
  BY <1>1, <1>2, <1>3 DEF BrowserInv, GivenTokens, Refreshing, Posted
<1>6. InTurnPosts'
  BY <1>1, <1>2, <1>3 DEF BrowserInv, InTurnPosts, Refreshing, Posted
<1>7. StaysSignedIn' /\ NeverStranded'
  BY <1>1, <1>2, TokenNumbers DEF BrowserInv, StaysSignedIn, NeverStranded
<1> QED BY <1>4, <1>5, <1>6, <1>7 DEF BrowserInv

LEMMA RefreshRefused ==
    ASSUME BrowserInv, NEW c \in Calls, RefreshFails(c)
    PROVE  BrowserInv'
<1>1. /\ refreshToken' = 0 /\ Becomes(c, "idle", 0) /\ call[c] \in Refreshing
      /\ UNCHANGED <<issued, open, fresh, raced, dropped>> /\ left' \in BOOLEAN
      /\ left' \/ (UNCHANGED <<used, left>> /\ call[c] = "refresh" /\ ~(open /\ holds[c] \notin used))
      /\ used' = used \/ (call[c] \in Posted /\ used' = used \cup {holds[c]})
  BY DEF RefreshFails, AnswerLost, Refreshing, Posted, BrowserInv, BrowserTypeOK
<1>2. /\ call' \in [Calls -> CallStates] /\ holds' \in [Calls -> Tokens]
      /\ call'[c] = "idle"
      /\ \A d \in Calls : d # c => call'[d] = call[d] /\ holds'[d] = holds[d]
  BY <1>1, CallMoved, TokenNumbers DEF BrowserInv
<1>3. BrowserTypeOK'
  BY <1>1, <1>2, TokenNumbers DEF BrowserInv, BrowserTypeOK
<1>4. 0 < holds[c] /\ holds[c] <= issued
  BY <1>1 DEF BrowserInv, GivenTokens
<1>5. GivenTokens'
  <2>1. \A n \in used' : 0 < n /\ n <= issued
    BY <1>1, <1>4 DEF BrowserInv, GivenTokens
  <2>2. \A d \in Calls : call'[d] \in Refreshing => d # c
    BY <1>2 DEF Refreshing, Posted
  <2>3. ASSUME NEW d \in Calls, call'[d] = "answered"
        PROVE  /\ holds'[d] \notin used' /\ holds'[d] # 0
               /\ \A e \in Calls : e # d /\ call'[e] \in Refreshing => holds'[e] # holds'[d]
    <3>1. d # c /\ call[d] = "answered" /\ call[d] \in Refreshing
      BY <1>2, <2>3 DEF Refreshing
    <3>2. holds[d] \notin used /\ 0 < holds[d] /\ holds[d] # holds[c]
          /\ \A e \in Calls : e # d /\ call[e] \in Refreshing => holds[e] # holds[d]
      BY <1>1, <3>1 DEF BrowserInv, GivenTokens
    <3> QED BY <1>1, <1>2, <2>2, <3>1, <3>2, TokenNumbers DEF BrowserInv
  <2>4. 0 <= issued
    BY TokenNumbers DEF BrowserInv
  <2> QED BY <1>1, <1>2, <2>1, <2>2, <2>3, <2>4 DEF BrowserInv, GivenTokens
<1>6. open /\ ~raced /\ ~dropped => left'
  <2> SUFFICES ASSUME open, ~raced, ~dropped, ~left' PROVE FALSE
    OBVIOUS
  <2>1. ~left /\ call[c] = "refresh" /\ call[c] \in Posted /\ holds[c] \in used
    BY <1>1 DEF Posted
  <2>2. holds[c] = refreshToken /\ \A d \in Calls : call[d] \in Refreshing => d = c
    BY <1>1, <2>1 DEF BrowserInv, InTurnPosts
  <2> QED BY <2>1, <2>2 DEF BrowserInv, StaysSignedIn, Refreshing
<1>7. InTurnPosts' /\ StaysSignedIn'
  BY <1>1, <1>2, <1>6 DEF BrowserInv, InTurnPosts, StaysSignedIn, Refreshing, Posted
<1>8. NeverStranded'
  BY <1>1, <1>5, TokenNumbers DEF BrowserInv, GivenTokens, NeverStranded
<1> QED BY <1>3, <1>5, <1>7, <1>8 DEF BrowserInv

LEMMA PageLeft ==
    ASSUME BrowserInv, Reload
    PROVE  BrowserInv'
<1>1. PICK done \in SUBSET {c \in Calls : call[c] \in Posted} :
         used' = used \cup {holds[c] : c \in done}
  BY DEF Reload
<1>2. /\ call' = [c \in Calls |-> "idle"] /\ holds' = [c \in Calls |-> 0]
      /\ UNCHANGED <<refreshToken, issued, open, fresh, raced, left>>
      /\ dropped' = (dropped \/ (refreshToken # 0 /\ \E c \in Calls : call[c] \in Refreshing))
  BY DEF Reload
<1>3. BrowserTypeOK'
  <2>1. used' \subseteq Tokens
    BY <1>1 DEF BrowserInv, BrowserTypeOK
  <2>2. "idle" \in CallStates /\ 0 \in Tokens
    BY TokenNumbers DEF BrowserInv
  <2>3. dropped' \in BOOLEAN
    BY <1>2 DEF BrowserInv, BrowserTypeOK
  <2> QED BY <1>2, <2>1, <2>2, <2>3 DEF BrowserInv, BrowserTypeOK
<1>4. \A c \in Calls : call'[c] \notin Refreshing /\ call'[c] \notin Posted /\ call'[c] # "answered"
  BY <1>2 DEF Refreshing, Posted
<1>5. \A n \in used' : n \in used \/ (0 < n /\ n <= issued)
  BY <1>1 DEF BrowserInv, GivenTokens, Refreshing
<1>6. GivenTokens'
  BY <1>2, <1>4, <1>5 DEF BrowserInv, GivenTokens
<1>7. ~dropped' => \/ refreshToken = 0
                   \/ used' = used /\ \A c \in Calls : call[c] # "answered"
  BY <1>1, <1>2 DEF Refreshing
<1>8. NeverStranded'
  <2>1. 0 \notin used'
    BY <1>2, <1>6, TokenNumbers DEF BrowserInv, GivenTokens
  <2> QED BY <1>2, <1>7, <2>1 DEF BrowserInv, NeverStranded
<1>9. StaysSignedIn'
  <2> SUFFICES ASSUME open, ~raced, ~left, ~dropped'
               PROVE  refreshToken # 0 /\ refreshToken \notin used'
    BY <1>2 DEF StaysSignedIn
  <2>1. ~dropped
    BY <1>2
  <2>2. refreshToken # 0
    BY <1>2, <2>1 DEF BrowserInv, InTurnPosts
  <2> QED BY <1>7, <2>1, <2>2 DEF BrowserInv, StaysSignedIn
<1>10. InTurnPosts'
  BY <1>2, <1>4 DEF BrowserInv, InTurnPosts
<1> QED BY <1>3, <1>6, <1>8, <1>9, <1>10 DEF BrowserInv

LEMMA SessionLeft ==
    ASSUME BrowserInv, Logout \/ AccessExpires \/ SessionCloses
    PROVE  BrowserInv'
<1>1. /\ UNCHANGED <<used, issued, call, holds, raced, dropped>>
      /\ open' \in BOOLEAN /\ fresh' \in BOOLEAN /\ left' \in BOOLEAN
      /\ (open' => open) /\ (left => left')
      /\ \/ refreshToken' = refreshToken
         \/ refreshToken' = 0 /\ left'
  <2>1. open \in BOOLEAN /\ fresh \in BOOLEAN /\ left \in BOOLEAN
    BY DEF BrowserInv, BrowserTypeOK
  <2>2. CASE Logout
    <3>1. /\ open' = open \/ open' = FALSE
          /\ refreshToken' = 0 /\ left' = TRUE
          /\ UNCHANGED <<used, issued, fresh, call, holds, raced, dropped>>
      BY <2>2 DEF Logout
    <3>2. open' \in BOOLEAN /\ (open' => open)
      <4>1. CASE open' = open
        BY <2>1, <4>1
      <4>2. CASE open' = FALSE
        BY <4>2
      <4> QED BY <3>1, <4>1, <4>2
    <3>3. fresh' \in BOOLEAN /\ left' \in BOOLEAN /\ (left => left')
      BY <2>1, <3>1
    <3> QED BY <3>1, <3>2, <3>3
  <2>3. CASE AccessExpires
    BY <2>1, <2>3 DEF AccessExpires
  <2>4. CASE SessionCloses
    BY <2>1, <2>4 DEF SessionCloses
  <2> QED BY <2>2, <2>3, <2>4
<1>2. BrowserTypeOK'
  BY <1>1, TokenNumbers DEF BrowserInv, BrowserTypeOK
<1>3. GivenTokens'
  <2>1. \A c \in Calls : call[c] = "answered" => call[c] \in Refreshing /\ holds[c] # 0
    BY TokenNumbers DEF BrowserInv, GivenTokens, Refreshing
  <2> QED BY <1>1, <2>1, TokenNumbers DEF BrowserInv, GivenTokens
<1>4. InTurnPosts' /\ StaysSignedIn'
  BY <1>1 DEF BrowserInv, InTurnPosts, StaysSignedIn
<1>5. NeverStranded'
  BY <1>1, TokenNumbers DEF BrowserInv, GivenTokens, NeverStranded
<1> QED BY <1>2, <1>3, <1>4, <1>5 DEF BrowserInv

LEMMA BrowserStep == BrowserInv /\ [BrowserNext]_browserVars => BrowserInv'
<1> SUFFICES ASSUME BrowserInv, [BrowserNext]_browserVars PROVE BrowserInv'
  OBVIOUS
<1>1. ASSUME NEW c \in Calls,
             SendCall(c) \/ Answer(c) \/ ReadToken(c) \/ Rotate(c) \/ SetTokens(c) \/ RefreshFails(c)
      PROVE  BrowserInv'
  BY <1>1, CallSends, CallAnswered, TokenRead, TokenRotates, StoreSet, RefreshRefused
<1>2. CASE Logout \/ AccessExpires \/ SessionCloses
  BY <1>2, SessionLeft
<1>3. CASE Reload
  BY <1>3, PageLeft
<1>4. CASE UNCHANGED browserVars
  BY <1>4
     DEF browserVars, BrowserInv, BrowserTypeOK, GivenTokens, InTurnPosts, StaysSignedIn, NeverStranded
<1> QED BY <1>1, <1>2, <1>3, <1>4 DEF BrowserNext

(* A user whose calls refresh one at a time stays signed in, however many  *)
(* calls the page has in flight (frontend/src/api/client.ts).              *)
THEOREM BrowserStaysSignedIn == BrowserSpec => []BrowserConsistent
<1>1. BrowserInit => BrowserInv
  BY BrowserInitial
<1>2. BrowserInv /\ [BrowserNext]_browserVars => BrowserInv'
  BY BrowserStep
<1>3. BrowserInv => BrowserConsistent
  BY DEF BrowserInv, BrowserConsistent
<1> QED BY <1>1, <1>2, <1>3, PTL DEF BrowserSpec

(* And however they race, the page does not rest on a token that the       *)
(* server has used, unless it was left in the middle of a refresh.         *)
THEOREM BrowserNeverStranded == BrowserSpec => []NeverStranded
<1>1. BrowserInit => BrowserInv
  BY BrowserInitial
<1>2. BrowserInv /\ [BrowserNext]_browserVars => BrowserInv'
  BY BrowserStep
<1>3. BrowserInv => NeverStranded
  BY DEF BrowserInv
<1> QED BY <1>1, <1>2, <1>3, PTL DEF BrowserSpec

-----------------------------------------------------------------------------
(* OAuth.  A state is accepted by whoever reads it before it is deleted;   *)
(* an identity's link is inserted only where there is none; whoever        *)
(* unlinks has found another way to sign in, which nobody else removes.    *)
Racing == {"getState", "delState"}
Leaving == {"find", "others", "delete"}
Another(u, l) == u \in passwords \/ \E m \in LinksOf(u) : m # l
OAuthWork(q) ==
    /\ q.pc \in Racing => q.flow \in 1..lastState
    /\ q.pc = "delState" /\ unraced[q.flow] => passed[q.flow] = 0
    /\ q.pc \in {"getSession", "delSession"} => q.flow \in Flows
    /\ q.pc = "link" => q.user \in Registered
    /\ q.pc \in Leaving => q.user \in Registered /\ q.link \in LinkIds
    /\ q.pc \in {"others", "delete"} => q.link <= lastLink /\ links[q.link].user \in {0, q.user}
    /\ q.pc = "delete" /\ calm[q.user] => Another(q.user, q.link)
OAuthApart(p, q) ==
    /\ p.pc \in Racing /\ q.pc \in Racing /\ p.flow = q.flow => ~unraced[p.flow]
    /\ p.pc \in Leaving /\ q.pc \in Leaving /\ p.user = q.user => ~calm[p.user]
StatesOnce ==
    /\ states \subseteq 1..lastState
    /\ \A f \in Flows : f > lastState => passed[f] = 0
    /\ \A f \in Flows : unraced[f] => passed[f] <= 1 /\ (f \in states => passed[f] = 0)
LinksOnce ==
    /\ \A l \in LinkIds : links[l].user # 0 => l <= lastLink
    /\ \A i \in Identities :
          /\ \A l, m \in LinkOf(i) : l = m
          /\ registered[i] \in {0, 1} /\ (registered[i] = 1 => LinkOf(i) # {})
OAuthInv ==
    /\ OAuthTypeOK /\ StatesOnce /\ LinksOnce /\ KeepsSignIn
    /\ \A r \in Workers : OAuthWork(areq[r])
    /\ \A r, o \in Workers : r # o => OAuthApart(areq[r], areq[o])


LEMMA AIdleType ==
    /\ AIdle \in OAuthRequest /\ AIdle.pc = "idle" /\ AIdle.flow = 0 /\ AIdle.user = 0
    /\ AIdle.link = 0 /\ AnyIdentity \in Identities
<1>1. AnyIdentity \in Identities
  BY OAuthAssumption DEF AnyIdentity
<1>2. 0 \in 0..MaxFlows /\ 0 \in 0..MaxAccounts /\ 0 \in 0..MaxLinks
  BY OAuthAssumption
<1> QED BY <1>1, <1>2 DEF AIdle, OAuthRequest

LEMMA ARanges ==
    ASSUME OAuthTypeOK
    PROVE  /\ lastState \in Nat /\ lastAccount \in Nat /\ lastLink \in Nat /\ lastWaiting \in Nat
           /\ 1..lastState \subseteq Flows /\ 1..lastWaiting \subseteq Flows
           /\ Flows \subseteq 0..MaxFlows
           /\ Registered \subseteq AccountIds /\ AccountIds \subseteq 0..MaxAccounts
           /\ LinkIds \subseteq 0..MaxLinks
           /\ \A l \in LinkIds : links[l].identity \in Identities /\ links[l].user \in 0..MaxAccounts
           /\ \A r \in Workers : areq[r] \in OAuthRequest
BY OAuthAssumption DEF OAuthTypeOK, Flows, AccountIds, LinkIds, Registered

LEMMA AMoved ==
    ASSUME OAuthTypeOK, NEW r \in Workers, NEW x \in OAuthRequest, ABecome(r, x)
    PROVE  /\ areq' \in [Workers -> OAuthRequest] /\ areq'[r] = x
           /\ \A q \in Workers : q # r => areq'[q] = areq[q]
BY DEF ABecome, OAuthTypeOK

(* The requests after a step of r that leaves the histories of overlaps.   *)
LEMMA AGoesOn ==
    ASSUME OAuthInv, NEW r \in Workers, NEW x \in OAuthRequest, ABecome(r, x),
           UNCHANGED <<unraced, calm>>, OAuthWork(x)',
           x.pc \in Racing => areq[r].pc \in Racing /\ x.flow = areq[r].flow,
           x.pc \in Leaving => areq[r].pc \in Leaving /\ x.user = areq[r].user,
           \A o \in Workers : \A q \in OAuthRequest :
               o # r /\ q = areq[o] /\ OAuthWork(q) => OAuthWork(q)'
    PROVE  /\ areq' \in [Workers -> OAuthRequest]
           /\ \A o \in Workers : OAuthWork(areq[o])'
           /\ \A p, o \in Workers : p # o => OAuthApart(areq[p], areq[o])'
<1>1. /\ areq' \in [Workers -> OAuthRequest] /\ areq'[r] = x
      /\ \A q \in Workers : q # r => areq'[q] = areq[q]
  BY AMoved DEF OAuthInv
<1>2. ASSUME NEW o \in Workers PROVE OAuthWork(areq[o])'
  <2>1. PICK q \in OAuthRequest : q = areq'[o]
    BY <1>1
  <2>2. OAuthWork(q)'
    BY <1>1, <2>1, ARanges DEF OAuthInv
  <2> QED BY <2>1, <2>2 DEF OAuthWork
<1>3. ASSUME NEW p \in Workers, NEW o \in Workers, p # o
      PROVE  OAuthApart(areq[p], areq[o])'
  <2>1. OAuthApart(areq[p], areq[o])
    BY <1>3 DEF OAuthInv
  <2>2. CASE p = r
    BY <1>1, <1>3, <2>1, <2>2 DEF OAuthApart
  <2>3. CASE o = r
    BY <1>1, <1>3, <2>1, <2>3 DEF OAuthApart
  <2>4. CASE p # r /\ o # r
    BY <1>1, <2>1, <2>4 DEF OAuthApart
  <2> QED BY <2>2, <2>3, <2>4
<1> QED BY <1>1, <1>2, <1>3

(* A request takes a step that writes neither to Redis nor a row. *)
LEMMA ALocal ==
    ASSUME OAuthInv, NEW r \in Workers, NEW x \in OAuthRequest, ABecome(r, x),
           UNCHANGED <<oauthRedis, oauthDb, oauthHistory>>, OAuthWork(x),
           x.pc \in Racing => areq[r].pc \in Racing /\ x.flow = areq[r].flow,
           x.pc \in Leaving => areq[r].pc \in Leaving /\ x.user = areq[r].user
    PROVE  OAuthInv'
<1>1. UNCHANGED <<states, lastState, waiting, lastWaiting, accounts, lastAccount, passwords,
                  links, lastLink, passed, registered, unraced, calm>>
  BY DEF oauthRedis, oauthDb, oauthHistory
<1>2. \A q \in OAuthRequest : OAuthWork(q) => OAuthWork(q)'
  BY <1>1 DEF OAuthWork, Another, LinksOf, Registered
<1>3. /\ areq' \in [Workers -> OAuthRequest]
      /\ \A o \in Workers : OAuthWork(areq[o])'
      /\ \A p, o \in Workers : p # o => OAuthApart(areq[p], areq[o])'
  BY <1>1, <1>2, AGoesOn
<1>4. OAuthTypeOK'
  BY <1>1, <1>3 DEF OAuthInv, OAuthTypeOK
<1>5. StatesOnce' /\ LinksOnce' /\ KeepsSignIn'
  BY <1>1 DEF OAuthInv, StatesOnce, LinksOnce, KeepsSignIn, LinkOf, LinksOf, Registered
<1> QED BY <1>3, <1>4, <1>5 DEF OAuthInv

LEMMA AFails ==
    ASSUME OAuthInv, NEW r \in Workers, ABecome(r, AIdle),
           UNCHANGED <<oauthRedis, oauthDb, oauthHistory>>
    PROVE  OAuthInv'
BY AIdleType, ALocal DEF OAuthWork, Racing, Leaving

LEMMA OAuthInitial == OAuthInit => OAuthInv
<1> SUFFICES ASSUME OAuthInit PROVE OAuthInv
  OBVIOUS
<1>1. /\ states = {} /\ lastState = 0 /\ waiting = [f \in Flows |-> Nobody] /\ lastWaiting = 0
      /\ lastAccount \in 0..MaxAccounts /\ passwords = 1..lastAccount
      /\ accounts \in [AccountIds -> Names \cup {Nobody}]
      /\ links = [l \in LinkIds |-> Unlinked] /\ lastLink = 0
      /\ passed = [f \in Flows |-> 0] /\ registered = [i \in Identities |-> 0]
      /\ unraced = [f \in Flows |-> TRUE] /\ calm = [u \in AccountIds |-> TRUE]
      /\ areq = [r \in Workers |-> AIdle]
  BY DEF OAuthInit
<1>2. /\ Unlinked \in [identity : Identities, user : 0..MaxAccounts] /\ Unlinked.user = 0
      /\ 0 \in 0..MaxFlows /\ 0 \in 0..MaxLinks /\ passwords \subseteq AccountIds
  BY <1>1, AIdleType, OAuthAssumption DEF Unlinked, AccountIds
<1>3. OAuthTypeOK
  BY <1>1, <1>2, AIdleType DEF OAuthTypeOK
<1>4. StatesOnce /\ LinksOnce /\ KeepsSignIn
  BY <1>1, <1>2 DEF StatesOnce, LinksOnce, KeepsSignIn, LinkOf, Registered
<1>5. OAuthWork(AIdle) /\ OAuthApart(AIdle, AIdle)
  BY AIdleType DEF OAuthWork, OAuthApart, Racing, Leaving
<1> QED BY <1>1, <1>3, <1>4, <1>5 DEF OAuthInv

(* A request arrives, and the history takes note of what it overlaps. *)
LEMMA ABegins ==
    ASSUME OAuthInv, NEW r \in Workers, NEW x \in OAuthRequest, ABegin(r, x),
           x.pc \in {"getState", "getSession", "find"},
           x.pc = "getState" => x.flow \in 1..lastState,
           x.pc = "getSession" => x.flow \in Flows,
           x.pc = "find" => x.user \in Registered /\ x.link \in LinkIds
    PROVE  OAuthInv'
<1>1. /\ areq' \in [Workers -> OAuthRequest] /\ areq'[r] = x
      /\ \A q \in Workers : q # r => areq'[q] = areq[q]
  BY AMoved DEF OAuthInv, ABegin
<1>2. UNCHANGED <<states, lastState, waiting, lastWaiting, accounts, lastAccount, passwords,
                  links, lastLink, passed, registered>>
  BY DEF ABegin, oauthRedis, oauthDb
<1>3. /\ unraced' \in [Flows -> BOOLEAN] /\ calm' \in [AccountIds -> BOOLEAN]
      /\ \A f \in Flows : unraced'[f] => unraced[f]
      /\ \A u \in AccountIds : calm'[u] => calm[u]
  BY DEF ABegin
<1>4. OAuthTypeOK'
  BY <1>1, <1>2, <1>3 DEF OAuthInv, OAuthTypeOK
<1>5. StatesOnce' /\ LinksOnce' /\ KeepsSignIn'
  BY <1>2, <1>3, ARanges
     DEF OAuthInv, StatesOnce, LinksOnce, KeepsSignIn, LinkOf, LinksOf, Registered
<1>6. ASSUME NEW o \in Workers PROVE OAuthWork(areq[o])'
  <2>1. CASE o = r
    BY <1>1, <1>2, <2>1 DEF OAuthWork, Racing, Leaving, Registered
  <2>2. CASE o # r
    <3>1. OAuthWork(areq[o]) /\ areq'[o] = areq[o]
      BY <1>1, <2>2 DEF OAuthInv
    <3> QED BY <1>2, <1>3, <3>1, ARanges
         DEF OAuthInv, OAuthWork, Another, LinksOf, Registered, Racing, Leaving
  <2> QED BY <2>1, <2>2
<1>7. ASSUME NEW o \in Workers, o # r, NEW q \in OAuthRequest, q = areq[o]
      PROVE  OAuthApart(q, x)' /\ OAuthApart(x, q)'
  <2>1. q.pc # "idle" => q \in InProgress(areq, r)
    BY <1>7, InProgressFacts
  <2>2. q.pc \in Racing /\ x.pc \in Racing /\ q.flow = x.flow => ~unraced'[x.flow]
    <3> SUFFICES ASSUME q.pc \in Racing, x.pc \in Racing, q.flow = x.flow
                 PROVE  ~unraced'[x.flow]
      OBVIOUS
    <3>1. x.flow \in Flows /\ x.pc = "getState" /\ q \in InProgress(areq, r)
      BY <2>1, ARanges DEF OAuthInv, Racing
    <3> QED BY <3>1 DEF ABegin, Racing
  <2>3. q.pc \in Leaving /\ x.pc \in Leaving /\ q.user = x.user => ~calm'[x.user]
    <3> SUFFICES ASSUME q.pc \in Leaving, x.pc \in Leaving, q.user = x.user
                 PROVE  ~calm'[x.user]
      OBVIOUS
    <3>1. x.user \in AccountIds /\ x.pc = "find" /\ q \in InProgress(areq, r)
      BY <2>1, ARanges DEF OAuthInv, Leaving
    <3> QED BY <3>1 DEF ABegin, Leaving
  <2> QED BY <2>1, <2>2, <2>3 DEF OAuthApart
<1>8. ASSUME NEW p \in Workers, NEW o \in Workers, p # o
      PROVE  OAuthApart(areq[p], areq[o])'
  <2>1. OAuthApart(areq[p], areq[o])
    BY <1>8 DEF OAuthInv
  <2>2. CASE p = r
    <3>1. PICK q \in OAuthRequest : q = areq[o]
      BY ARanges DEF OAuthInv
    <3>2. OAuthApart(x, q)' /\ areq'[p] = x /\ areq'[o] = q
      BY <1>1, <1>7, <1>8, <2>2, <3>1
    <3> QED BY <3>2 DEF OAuthApart
  <2>3. CASE o = r
    <3>1. PICK q \in OAuthRequest : q = areq[p]
      BY ARanges DEF OAuthInv
    <3>2. OAuthApart(q, x)' /\ areq'[o] = x /\ areq'[p] = q
      BY <1>1, <1>7, <1>8, <2>3, <3>1
    <3> QED BY <3>2 DEF OAuthApart
  <2>4. CASE p # r /\ o # r
    <3>1. /\ areq[p].pc \in Racing => areq[p].flow \in Flows
          /\ areq[p].pc \in Leaving => areq[p].user \in AccountIds
      BY ARanges DEF OAuthInv, OAuthWork
    <3> QED BY <1>1, <1>3, <2>1, <2>4, <3>1 DEF OAuthApart
  <2> QED BY <2>2, <2>3, <2>4
<1> QED BY <1>4, <1>5, <1>6, <1>8 DEF OAuthInv

LEMMA AArrives ==
    ASSUME OAuthInv, NEW r \in Workers, AArrive(r)
    PROVE  OAuthInv'
<1>1. ASSUME NEW f \in 1..lastState, ABegin(r, [AIdle EXCEPT !.pc = "getState", !.flow = f])
      PROVE  OAuthInv'
  <2> DEFINE x == [AIdle EXCEPT !.pc = "getState", !.flow = f]
  <2>1. x \in OAuthRequest /\ x.pc = "getState" /\ x.flow = f
    BY AIdleType, ARanges DEF OAuthInv, OAuthRequest
  <2> HIDE DEF x
  <2> QED BY <1>1, <2>1, ABegins DEF x
<1>2. ASSUME NEW f \in 1..lastWaiting, ABegin(r, [AIdle EXCEPT !.pc = "getSession", !.flow = f])
      PROVE  OAuthInv'
  <2> DEFINE x == [AIdle EXCEPT !.pc = "getSession", !.flow = f]
  <2>1. x \in OAuthRequest /\ x.pc = "getSession" /\ x.flow \in Flows
    BY AIdleType, ARanges DEF OAuthInv, OAuthRequest
  <2> HIDE DEF x
  <2> QED BY <1>2, <2>1, ABegins DEF x
<1>3. ASSUME NEW u \in Registered, NEW l \in LinkIds,
             ABegin(r, [AIdle EXCEPT !.pc = "find", !.user = u, !.link = l])
      PROVE  OAuthInv'
  <2> DEFINE x == [AIdle EXCEPT !.pc = "find", !.user = u, !.link = l]
  <2>1. x \in OAuthRequest /\ x.pc = "find" /\ x.user = u /\ x.link = l
    BY AIdleType, ARanges DEF OAuthInv, OAuthRequest
  <2> HIDE DEF x
  <2> QED BY <1>3, <2>1, ABegins DEF x
<1> QED BY <1>1, <1>2, <1>3 DEF AArrive

(* The steps that read. *)
LEMMA AReads ==
    ASSUME OAuthInv, NEW r \in Workers,
           \/ GetState(r) \/ LookUpIdentity(r) \/ SignIn(r) \/ GetSession(r) \/ CheckAddress(r)
           \/ FindLink(r) \/ OtherWays(r)
    PROVE  OAuthInv'
<1> DEFINE q == areq[r]
<1>0. /\ q \in OAuthRequest /\ OAuthWork(q) /\ StatesOnce /\ LinksOnce
      /\ UNCHANGED <<oauthRedis, oauthDb, oauthHistory>>
  BY ARanges DEF OAuthInv, GetState, LookUpIdentity, SignIn, GetSession, CheckAddress, FindLink,
     OtherWays
<1>1. CASE GetState(r)
  <2> DEFINE x == [q EXCEPT !.pc = "delState"]
  <2>1. q.pc = "getState" /\ (ABecome(r, AIdle) \/ (ABecome(r, x) /\ q.flow \in states))
    BY <1>1 DEF GetState
  <2>2. x \in OAuthRequest /\ x.pc = "delState" /\ x.flow = q.flow
    BY <1>0 DEF OAuthRequest
  <2>3. q.flow \in states => OAuthWork(x)
    BY <1>0, <2>1, <2>2, ARanges DEF OAuthInv, OAuthWork, StatesOnce, Racing, Leaving
  <2> HIDE DEF x
  <2> QED BY <1>0, <2>1, <2>2, <2>3, AFails, ALocal DEF Racing, Leaving
<1>2. CASE LookUpIdentity(r)
  <2>1. CASE ABecome(r, [q EXCEPT !.pc = "address"])
    <3> DEFINE x == [q EXCEPT !.pc = "address"]
    <3>1. x \in OAuthRequest /\ x.pc = "address"
      BY <1>0 DEF OAuthRequest
    <3>2. OAuthWork(x) /\ x.pc \notin Racing /\ x.pc \notin Leaving
      BY <3>1 DEF OAuthWork, Racing, Leaving
    <3> QED BY <1>0, <2>1, <3>1, <3>2, ALocal
  <2>2. ASSUME NEW l \in LinkOf(q.identity),
               ABecome(r, [q EXCEPT !.pc = "login", !.user = links[l].user, !.link = l])
        PROVE  OAuthInv'
    <3> DEFINE x == [q EXCEPT !.pc = "login", !.user = links[l].user, !.link = l]
    <3>1. x \in OAuthRequest /\ x.pc = "login"
      BY <1>0, ARanges DEF OAuthInv, OAuthRequest, LinkOf
    <3>2. OAuthWork(x) /\ x.pc \notin Racing /\ x.pc \notin Leaving
      BY <3>1 DEF OAuthWork, Racing, Leaving
    <3> QED BY <1>0, <2>2, <3>1, <3>2, ALocal
  <2> QED BY <1>2, <2>1, <2>2 DEF LookUpIdentity
<1>3. CASE SignIn(r)
  BY <1>0, <1>3, AFails DEF SignIn
<1>4. CASE GetSession(r)
  <2> DEFINE i == waiting[q.flow]
             x == [q EXCEPT !.pc = "delSession", !.identity = i]
  <2>1. q.pc = "getSession" /\ (ABecome(r, AIdle) \/ (ABecome(r, x) /\ i # Nobody))
    BY <1>4 DEF GetSession
  <2>2. q.flow \in Flows /\ i \in Identities \cup {Nobody}
    BY <1>0, <2>1 DEF OAuthWork, OAuthInv, OAuthTypeOK
  <2>3. i # Nobody => x \in OAuthRequest /\ x.pc = "delSession" /\ x.flow = q.flow
    BY <1>0, <2>2 DEF OAuthRequest
  <2>4. i # Nobody => OAuthWork(x)
    BY <2>2, <2>3 DEF OAuthWork, Racing, Leaving
  <2> HIDE DEF x, i
  <2> QED BY <1>0, <2>1, <2>3, <2>4, AFails, ALocal DEF Racing, Leaving
<1>5. CASE CheckAddress(r)
  <2> DEFINE x == [q EXCEPT !.pc = "create"]
  <2>1. ABecome(r, AIdle) \/ ABecome(r, x)
    BY <1>5 DEF CheckAddress
  <2>2. x \in OAuthRequest /\ x.pc = "create"
    BY <1>0 DEF OAuthRequest
  <2>3. OAuthWork(x)
    BY <2>2 DEF OAuthWork, Racing, Leaving
  <2> HIDE DEF x
  <2> QED BY <1>0, <2>1, <2>2, <2>3, AFails, ALocal DEF Racing, Leaving
<1>6. CASE FindLink(r)
  <2> DEFINE x == [q EXCEPT !.pc = "others"]
  <2>1. q.pc = "find" /\ (ABecome(r, AIdle) \/ (ABecome(r, x) /\ links[q.link].user = q.user))
    BY <1>6 DEF FindLink
  <2>2. x \in OAuthRequest /\ x.pc = "others" /\ x.user = q.user /\ x.link = q.link
    BY <1>0 DEF OAuthRequest
  <2>3. q.user \in Registered /\ q.user # 0 /\ q.link \in LinkIds
    BY <1>0, <2>1 DEF OAuthWork, Leaving, Registered
  <2>4. links[q.link].user = q.user => OAuthWork(x)
    BY <1>0, <2>2, <2>3 DEF OAuthWork, LinksOnce, Racing, Leaving
  <2> HIDE DEF x
  <2> QED BY <1>0, <2>1, <2>2, <2>4, AFails, ALocal DEF Racing, Leaving
<1>7. CASE OtherWays(r)
  <2> DEFINE x == [q EXCEPT !.pc = "delete"]
             other == \/ q.user \in passwords
                      \/ \E l \in LinksOf(q.user) :
                            Provider[links[l].identity] # Provider[links[q.link].identity]
  <2>1. q.pc = "others" /\ (ABecome(r, AIdle) \/ (ABecome(r, x) /\ other))
    BY <1>7 DEF OtherWays
  <2>2. x \in OAuthRequest /\ x.pc = "delete" /\ x.user = q.user /\ x.link = q.link
    BY <1>0 DEF OAuthRequest
  <2>3. other => Another(q.user, q.link)
    BY DEF Another
  <2>4. other => OAuthWork(x)
    BY <1>0, <2>1, <2>2, <2>3 DEF OAuthWork, Racing, Leaving
  <2> HIDE DEF x
  <2> QED BY <1>0, <2>1, <2>2, <2>4, AFails, ALocal DEF Racing, Leaving
<1> QED BY <1>1, <1>2, <1>3, <1>4, <1>5, <1>6, <1>7

(* A state is made: it was never accepted.  What Redis has expires. *)
LEMMA AStates ==
    ASSUME OAuthInv, Authorize \/ Expire
    PROVE  OAuthInv'
<1>0. UNCHANGED <<accounts, lastAccount, passwords, links, lastLink, passed, registered, unraced,
                  calm, areq>>
  BY DEF Authorize, Expire, oauthDb, oauthHistory
<1>1. CASE Authorize
  <2>1. PICK n \in Flows : n = lastState + 1 /\ lastState' = n /\ states' = states \cup {n}
    BY <1>1, OAuthAssumption DEF Authorize, OAuthInv, OAuthTypeOK, Flows
  <2>2. UNCHANGED <<waiting, lastWaiting>> /\ n \in 0..MaxFlows /\ n > lastState
    BY <1>1, <2>1, ARanges DEF Authorize, OAuthInv
  <2>3. OAuthTypeOK'
    BY <1>0, <2>1, <2>2 DEF OAuthInv, OAuthTypeOK
  <2>4. 1..lastState \subseteq 1..n /\ n \in 1..n
    BY <2>1, ARanges DEF OAuthInv
  <2>5. StatesOnce'
    <3>1. StatesOnce /\ passed \in [Flows -> Nat] /\ lastState \in Nat /\ n \in Nat
      BY <2>2, ARanges DEF OAuthInv, OAuthTypeOK
    <3>2. states' \subseteq 1..lastState'
      BY <2>1, <2>4, <3>1 DEF StatesOnce
    <3>3. \A f \in Flows : f \in Nat
      BY DEF Flows
    <3>4. ASSUME NEW f \in Flows
          PROVE  /\ f > lastState' => passed'[f] = 0
                 /\ unraced'[f] => passed'[f] <= 1 /\ (f \in states' => passed'[f] = 0)
      <4>1. passed'[f] = passed[f] /\ unraced'[f] = unraced[f] /\ f \in Nat
        BY <1>0, <3>3
      <4>2. f > lastState' => f > lastState
        BY <2>1, <2>2, <3>1, <4>1
      <4>3. f \in states' => f \in states \/ f = n
        BY <2>1
      <4> QED BY <2>2, <3>1, <4>1, <4>2, <4>3 DEF StatesOnce
    <3> QED BY <3>2, <3>4 DEF StatesOnce
  <2>6. \A r \in Workers : OAuthWork(areq[r])'
    BY <1>0, <2>1, <2>4 DEF OAuthInv, OAuthWork, Another, LinksOf, Registered
  <2> QED BY <1>0, <2>3, <2>5, <2>6
       DEF OAuthInv, LinksOnce, KeepsSignIn, LinkOf, LinksOf, Registered, OAuthApart
<1>2. CASE Expire
  <2>1. UNCHANGED <<lastState, lastWaiting>> /\ states' \subseteq states
        /\ waiting' \in [Flows -> Identities \cup {Nobody}]
    BY <1>2 DEF Expire, OAuthInv, OAuthTypeOK
  <2>2. OAuthTypeOK'
    BY <1>0, <2>1 DEF OAuthInv, OAuthTypeOK
  <2>3. StatesOnce' /\ \A r \in Workers : OAuthWork(areq[r])'
    BY <1>0, <2>1 DEF OAuthInv, StatesOnce, OAuthWork, Another, LinksOf, Registered
  <2> QED BY <1>0, <2>2, <2>3
       DEF OAuthInv, LinksOnce, KeepsSignIn, LinkOf, LinksOf, Registered, OAuthApart
<1> QED BY <1>1, <1>2

(* The state is deleted and accepted: for the first time, when no other    *)
(* callback races for it.                                                  *)
LEMMA AAccepts ==
    ASSUME OAuthInv, NEW r \in Workers, DeleteState(r)
    PROVE  OAuthInv'
<1> DEFINE q == areq[r]
<1>1. PICK i \in Identities : ABecome(r, [q EXCEPT !.pc = "lookUp", !.identity = i, !.flow = 0])
  BY DEF DeleteState
<1>2. PICK x \in OAuthRequest : x = [q EXCEPT !.pc = "lookUp", !.identity = i, !.flow = 0]
  BY ARanges, AIdleType DEF OAuthInv, OAuthRequest
<1>3. PICK f \in Flows : f = q.flow
  BY ARanges DEF DeleteState, OAuthInv, OAuthWork, Racing
<1>4. /\ q.pc = "delState" /\ x.pc = "lookUp" /\ ABecome(r, x)
      /\ states' = states \ {f} /\ passed' = [passed EXCEPT ![f] = @ + 1]
      /\ UNCHANGED <<lastState, waiting, lastWaiting, accounts, lastAccount, passwords, links,
                     lastLink, registered, unraced, calm>>
  BY <1>1, <1>2, <1>3, ARanges DEF DeleteState, OAuthInv, OAuthRequest, oauthDb
<1>5. /\ f <= lastState /\ (unraced[f] => passed[f] = 0)
      /\ passed' \in [Flows -> Nat] /\ passed'[f] = passed[f] + 1
      /\ \A g \in Flows : g # f => passed'[g] = passed[g]
  BY <1>3, <1>4 DEF OAuthInv, OAuthTypeOK, OAuthWork, Racing
<1>6. StatesOnce'
  BY <1>4, <1>5, ARanges DEF OAuthInv, StatesOnce, Flows
<1>7. ASSUME NEW o \in Workers, NEW p \in OAuthRequest, o # r, p = areq[o], OAuthWork(p)
      PROVE  OAuthWork(p)'
  <2>1. p.pc = "delState" /\ unraced[p.flow] => p.flow \in Flows /\ p.flow # f
    BY <1>3, <1>4, <1>7, ARanges DEF OAuthInv, OAuthApart, OAuthWork, Racing
  <2>2. p.pc = "delState" /\ unraced'[p.flow] => passed'[p.flow] = 0
    BY <1>4, <1>5, <1>7, <2>1 DEF OAuthWork
  <2> QED BY <1>4, <1>7, <2>2 DEF OAuthWork, Another, LinksOf, Registered
<1>8. OAuthWork(x)' /\ x.pc \notin Racing /\ x.pc \notin Leaving
  BY <1>4 DEF OAuthWork, Racing, Leaving
<1>9. /\ areq' \in [Workers -> OAuthRequest]
      /\ \A o \in Workers : OAuthWork(areq[o])'
      /\ \A p, o \in Workers : p # o => OAuthApart(areq[p], areq[o])'
  BY <1>4, <1>7, <1>8, AGoesOn
<1>10. OAuthTypeOK'
  BY <1>4, <1>5, <1>9 DEF OAuthInv, OAuthTypeOK
<1>11. LinksOnce' /\ KeepsSignIn'
  BY <1>4 DEF OAuthInv, LinksOnce, KeepsSignIn, LinkOf, LinksOf, Registered
<1> QED BY <1>6, <1>9, <1>10, <1>11 DEF OAuthInv

(* A registration that waits, or whose turn has come. *)
LEMMA AWaits ==
    ASSUME OAuthInv, NEW r \in Workers, LookUpAddress(r) \/ DeleteSession(r)
    PROVE  OAuthInv'
<1> DEFINE q == areq[r]
<1>0. q \in OAuthRequest /\ OAuthWork(q)
  BY ARanges DEF OAuthInv
<1>1. ASSUME NEW u \in Registered, ABecome(r, [q EXCEPT !.pc = "link", !.user = u]),
             UNCHANGED <<oauthRedis, oauthDb, oauthHistory>>
      PROVE  OAuthInv'
  <2> DEFINE x == [q EXCEPT !.pc = "link", !.user = u]
  <2>1. x \in OAuthRequest /\ x.pc = "link" /\ x.user = u
    BY <1>0, ARanges DEF OAuthInv, OAuthRequest
  <2>2. OAuthWork(x) /\ x.pc \notin Racing /\ x.pc \notin Leaving
    BY <2>1 DEF OAuthWork, Racing, Leaving
  <2> HIDE DEF x
  <2> QED BY <1>1, <2>1, <2>2, ALocal DEF x
<1>2. ASSUME NEW x \in OAuthRequest, ABecome(r, x), x.pc \in {"idle", "check"},
             lastWaiting' \in 0..MaxFlows, waiting' \in [Flows -> Identities \cup {Nobody}],
             UNCHANGED <<states, lastState, oauthDb, oauthHistory>>
      PROVE  OAuthInv'
  <2>1. UNCHANGED <<accounts, lastAccount, passwords, links, lastLink, passed, registered, unraced,
                    calm>>
    BY <1>2 DEF oauthDb, oauthHistory
  <2>2. \A p \in OAuthRequest : OAuthWork(p) => OAuthWork(p)'
    BY <1>2, <2>1 DEF OAuthWork, Another, LinksOf, Registered
  <2>3. OAuthWork(x)' /\ x.pc \notin Racing /\ x.pc \notin Leaving
    BY <1>2 DEF OAuthWork, Racing, Leaving
  <2>4. /\ areq' \in [Workers -> OAuthRequest]
        /\ \A o \in Workers : OAuthWork(areq[o])'
        /\ \A p, o \in Workers : p # o => OAuthApart(areq[p], areq[o])'
    BY <1>2, <2>1, <2>2, <2>3, AGoesOn
  <2>5. OAuthTypeOK'
    BY <1>2, <2>1, <2>4 DEF OAuthInv, OAuthTypeOK
  <2>6. StatesOnce' /\ LinksOnce' /\ KeepsSignIn'
    BY <1>2, <2>1 DEF OAuthInv, StatesOnce, LinksOnce, KeepsSignIn, LinkOf, LinksOf, Registered
  <2> QED BY <2>4, <2>5, <2>6 DEF OAuthInv
<1>3. CASE LookUpAddress(r)
  <2>1. CASE /\ \E u \in WithAddress(Name[q.identity]) : ABecome(r, [q EXCEPT !.pc = "link", !.user = u])
             /\ UNCHANGED <<waiting, lastWaiting>>
    BY <1>1, <1>3, <2>1 DEF LookUpAddress, WithAddress, oauthRedis
  <2>2. CASE /\ lastWaiting < MaxFlows
             /\ lastWaiting' = lastWaiting + 1
             /\ waiting' = [waiting EXCEPT ![lastWaiting + 1] = q.identity]
             /\ ABecome(r, AIdle)
    <3>1. lastWaiting' \in 0..MaxFlows
      BY <2>2, OAuthAssumption DEF OAuthInv, OAuthTypeOK
    <3>2. waiting' \in [Flows -> Identities \cup {Nobody}]
      BY <1>0, <2>2 DEF OAuthInv, OAuthTypeOK, OAuthRequest
    <3> QED BY <1>2, <1>3, <2>2, <3>1, <3>2, AIdleType DEF LookUpAddress
  <2> QED BY <1>3, <2>1, <2>2 DEF LookUpAddress
<1>4. CASE DeleteSession(r)
  <2> DEFINE x == [q EXCEPT !.pc = "check", !.flow = 0]
  <2>1. x \in OAuthRequest /\ x.pc = "check"
    BY <1>0, AIdleType DEF OAuthRequest
  <2>2. /\ lastWaiting' \in 0..MaxFlows /\ waiting' \in [Flows -> Identities \cup {Nobody}]
        /\ UNCHANGED <<states, lastState, oauthDb, oauthHistory>> /\ ABecome(r, x)
    BY <1>4 DEF DeleteSession, OAuthInv, OAuthTypeOK
  <2> HIDE DEF x
  <2> QED BY <1>2, <2>1, <2>2
<1> QED BY <1>3, <1>4

(* An identity without a link gets one: its user has one more way in. *)
LEMMA ANewLink ==
    ASSUME OAuthInv, NEW r \in Workers, NEW u \in AccountIds, InsertLink(r, u)
    PROVE  \E k \in LinkIds :
               /\ k = lastLink + 1 /\ lastLink' = k /\ lastLink' \in 0..MaxLinks
               /\ links' \in [LinkIds -> [identity : Identities, user : 0..MaxAccounts]]
               /\ links[k].user = 0 /\ links'[k].user = u
               /\ links'[k].identity = areq[r].identity
               /\ \A m \in LinkIds : m # k => links'[m] = links[m]
<1>1. PICK k \in LinkIds : k = lastLink + 1
  BY OAuthAssumption DEF OAuthInv, OAuthTypeOK, InsertLink, LinkIds
<1>2. areq[r].identity \in Identities /\ u \in 0..MaxAccounts
  BY ARanges DEF OAuthInv, OAuthRequest
<1>3. lastLink' = k /\ k \in 0..MaxLinks /\ k > lastLink
  BY <1>1, ARanges DEF OAuthInv, InsertLink
<1>4. links \in [LinkIds -> [identity : Identities, user : 0..MaxAccounts]]
  BY DEF OAuthInv, OAuthTypeOK
<1>5. links' = [links EXCEPT ![k] = [identity |-> areq[r].identity, user |-> u]]
  BY <1>1 DEF InsertLink
<1>6. links[k].user = 0
  BY <1>1, <1>3, ARanges DEF OAuthInv, LinksOnce
<1> QED BY <1>1, <1>2, <1>3, <1>4, <1>5, <1>6

LEMMA ALinked ==
    ASSUME OAuthInv, NEW r \in Workers, NEW u \in AccountIds, InsertLink(r, u), ABecome(r, AIdle),
           UNCHANGED <<oauthRedis, passwords, passed, unraced, calm>>,
           accounts' \in [AccountIds -> Names \cup {Nobody}], lastAccount' \in 0..MaxAccounts,
           Registered \subseteq Registered', Registered' \subseteq Registered \cup {u},
           \/ registered' = registered
           \/ registered' = [registered EXCEPT ![areq[r].identity] = @ + 1]
    PROVE  OAuthInv'
<1>1. PICK k \in LinkIds :
               /\ k = lastLink + 1 /\ lastLink' = k /\ lastLink' \in 0..MaxLinks
               /\ links' \in [LinkIds -> [identity : Identities, user : 0..MaxAccounts]]
               /\ links[k].user = 0 /\ links'[k].user = u
               /\ links'[k].identity = areq[r].identity
               /\ \A m \in LinkIds : m # k => links'[m] = links[m]
  BY ANewLink
<1>2. PICK i \in Identities : i = areq[r].identity
  BY ARanges DEF OAuthInv, OAuthRequest
<1>3. UNCHANGED <<states, lastState, waiting, lastWaiting, passwords, passed, unraced, calm>>
  BY DEF oauthRedis
<1>4. LinkOf(i) = {} /\ u # 0 /\ u \in 0..MaxAccounts
  BY <1>2, OAuthAssumption DEF InsertLink, AccountIds
<1>5. LinkOf(i)' = {k} /\ \A j \in Identities : j # i => LinkOf(j)' = LinkOf(j)
  <2>1. ASSUME NEW j \in Identities, NEW l \in LinkIds
        PROVE  l \in LinkOf(j)' <=> (IF l = k THEN j = i ELSE l \in LinkOf(j))
    BY <1>1, <1>2, <1>4 DEF LinkOf
  <2>2. \A j \in Identities : LinkOf(j) \subseteq LinkIds /\ LinkOf(j)' \subseteq LinkIds
    BY DEF LinkOf
  <2>3. LinkOf(i)' = {k}
    BY <1>2, <1>4, <2>1, <2>2
  <2>4. ASSUME NEW j \in Identities, j # i PROVE LinkOf(j)' = LinkOf(j)
    <3>1. k \notin LinkOf(j)
      BY <1>1 DEF LinkOf
    <3> QED BY <2>1, <2>2, <2>4, <3>1
  <2> QED BY <2>3, <2>4
<1>6. k \in LinksOf(u)' /\ \A v : v # 0 => LinksOf(v) \subseteq LinksOf(v)'
  BY <1>1 DEF LinksOf
<1>7. ASSUME NEW j \in Identities
      PROVE  /\ registered'[j] \in {0, 1}
             /\ registered'[j] = 1 => LinkOf(j)' # {}
             /\ \A l, m \in LinkOf(j)' : l = m
  <2>1. registered[j] \in {0, 1} /\ (registered[j] = 1 => LinkOf(j) # {})
    BY DEF OAuthInv, LinksOnce
  <2>2. \A l, m \in LinkOf(j) : l = m
    BY DEF OAuthInv, LinksOnce
  <2>3. registered'[j] = registered[j] \/ (j = i /\ registered'[j] = registered[j] + 1)
    BY <1>2 DEF OAuthInv, OAuthTypeOK
  <2>4. CASE j = i
    BY <1>4, <1>5, <2>1, <2>3, <2>4
  <2>5. CASE j # i
    BY <1>5, <2>1, <2>2, <2>3, <2>5
  <2> QED BY <2>4, <2>5
<1>8. registered' \in [Identities -> Nat]
  <2>1. registered \in [Identities -> Nat] /\ registered[i] + 1 \in Nat
    BY DEF OAuthInv, OAuthTypeOK
  <2> QED BY <1>2, <2>1
<1>9. LinksOnce'
  <2>1. ASSUME NEW l \in LinkIds, links'[l].user # 0 PROVE l <= lastLink'
    BY <1>1, <2>1, ARanges DEF OAuthInv, LinksOnce, LinkIds
  <2> QED BY <1>7, <2>1 DEF LinksOnce
<1>10. KeepsSignIn'
  <2> SUFFICES ASSUME NEW v \in Registered', calm'[v] PROVE v \in passwords' \/ LinksOf(v)' # {}
    BY DEF KeepsSignIn
  <2>1. CASE v = u
    BY <1>6, <2>1
  <2>2. CASE v # u
    BY <1>3, <1>6, <2>2 DEF OAuthInv, KeepsSignIn, Registered
  <2> QED BY <2>1, <2>2
<1>11. ASSUME NEW o \in Workers, NEW q \in OAuthRequest, o # r, q = areq[o], OAuthWork(q)
       PROVE  OAuthWork(q)'
  <2>1. q.pc \in {"others", "delete"} => q.link # k /\ q.link \in LinkIds /\ q.link <= lastLink'
    <3>1. q.pc \in {"others", "delete"} => q.link \in LinkIds /\ q.link <= lastLink
      BY <1>11 DEF OAuthWork, Leaving
    <3>2. lastLink \in Nat /\ \A l \in LinkIds : l \in Nat
      BY ARanges DEF OAuthInv, LinkIds
    <3>3. k = lastLink + 1 /\ lastLink' = k
      BY <1>1
    <3>4. ASSUME NEW l \in LinkIds, l <= lastLink PROVE l # k /\ l <= lastLink'
      BY <3>2, <3>3, <3>4
    <3> QED BY <3>1, <3>4
  <2>2. q.pc = "delete" => q.user # 0
    BY <1>11 DEF OAuthWork, Leaving, Registered
  <2>3. q.pc = "delete" /\ Another(q.user, q.link) => Another(q.user, q.link)'
    BY <1>3, <1>6, <2>2 DEF Another
  <2>4. q.pc \in Racing => q.flow \in 1..lastState
    BY <1>11 DEF OAuthWork
  <2> QED BY <1>1, <1>3, <1>11, <2>1, <2>3, <2>4 DEF OAuthWork, Leaving
<1>12. OAuthWork(AIdle)' /\ AIdle.pc \notin Racing /\ AIdle.pc \notin Leaving /\ AIdle \in OAuthRequest
  BY AIdleType DEF OAuthWork, Racing, Leaving
<1>13. /\ areq' \in [Workers -> OAuthRequest]
       /\ \A o \in Workers : OAuthWork(areq[o])'
       /\ \A p, o \in Workers : p # o => OAuthApart(areq[p], areq[o])'
  BY <1>3, <1>11, <1>12, AGoesOn
<1>14. OAuthTypeOK'
  BY <1>1, <1>3, <1>8, <1>13 DEF OAuthInv, OAuthTypeOK
<1>15. StatesOnce'
  BY <1>3 DEF OAuthInv, StatesOnce
<1> QED BY <1>9, <1>10, <1>13, <1>14, <1>15 DEF OAuthInv

LEMMA ALinks ==
    ASSUME OAuthInv, NEW r \in Workers, LinkByAddress(r) \/ CreateUser(r)
    PROVE  OAuthInv'
<1>1. CASE LinkByAddress(r)
  <2>1. PICK u \in AccountIds : u = areq[r].user
    BY <1>1, ARanges DEF OAuthInv, OAuthWork, LinkByAddress
  <2>2. UNCHANGED <<oauthRedis, accounts, lastAccount, passwords, passed, registered, unraced, calm>>
    BY <1>1 DEF LinkByAddress, oauthHistory
  <2>3. accounts' \in [AccountIds -> Names \cup {Nobody}] /\ lastAccount' \in 0..MaxAccounts
        /\ Registered' = Registered
    BY <2>2 DEF OAuthInv, OAuthTypeOK, Registered
  <2>4. InsertLink(r, u) /\ ABecome(r, AIdle)
    BY <1>1, <2>1 DEF LinkByAddress
  <2> QED BY <2>2, <2>3, <2>4, ALinked
<1>2. CASE CreateUser(r)
  <2>1. PICK u \in AccountIds : u = lastAccount + 1
    BY <1>2, OAuthAssumption DEF CreateUser, InsertUser, OAuthInv, OAuthTypeOK, AccountIds
  <2>2. UNCHANGED <<oauthRedis, passwords, passed, unraced, calm>>
    BY <1>2 DEF CreateUser, InsertUser
  <2>3. areq[r].identity \in Identities
    BY ARanges DEF OAuthInv, OAuthRequest
  <2>4. accounts' \in [AccountIds -> Names \cup {Nobody}]
    BY <1>2, <2>1, <2>3 DEF CreateUser, InsertUser, OAuthInv, OAuthTypeOK, Names
  <2>5. lastAccount' = u /\ lastAccount' \in 0..MaxAccounts
    BY <1>2, <2>1, OAuthAssumption DEF CreateUser, InsertUser, AccountIds
  <2>6. Registered \subseteq Registered' /\ Registered' \subseteq Registered \cup {u}
    BY <2>1, <2>5, ARanges DEF OAuthInv, Registered
  <2>7. InsertLink(r, u) /\ ABecome(r, AIdle)
        /\ registered' = [registered EXCEPT ![areq[r].identity] = @ + 1]
    BY <1>2, <2>1 DEF CreateUser
  <2> QED BY <2>2, <2>4, <2>5, <2>6, <2>7, ALinked
<1> QED BY <1>1, <1>2

(* A link goes whose user has found another way in, which nobody else      *)
(* takes away meanwhile.                                                   *)
LEMMA AUnlinks ==
    ASSUME OAuthInv, NEW r \in Workers, Unlink(r)
    PROVE  OAuthInv'
<1>1. PICK l \in LinkIds, u \in Registered : l = areq[r].link /\ u = areq[r].user
  BY DEF Unlink, OAuthInv, OAuthWork, Leaving
<1>2. PICK i \in Identities : i = links[l].identity
  BY ARanges DEF OAuthInv
<1>3. /\ areq[r].pc = "delete" /\ ABecome(r, AIdle)
      /\ UNCHANGED <<states, lastState, waiting, lastWaiting, accounts, lastAccount, passwords,
                     lastLink, passed, unraced, calm>>
  BY DEF Unlink, oauthRedis
<1>4. /\ links[l].user \in {0, u} /\ u # 0 /\ u \in AccountIds
      /\ calm[u] => Another(u, l)
  <2>1. OAuthWork(areq[r])
    BY DEF OAuthInv
  <2> QED BY <1>1, <1>3, <2>1, ARanges DEF OAuthInv, OAuthWork, Registered
<1>5. /\ links' \in [LinkIds -> [identity : Identities, user : 0..MaxAccounts]]
      /\ links'[l].user = 0 /\ links'[l].identity = i
      /\ \A m \in LinkIds : m # l => links'[m] = links[m]
  <2>1. links \in [LinkIds -> [identity : Identities, user : 0..MaxAccounts]]
    BY DEF OAuthInv, OAuthTypeOK
  <2>2. links' = [links EXCEPT ![l].user = 0] /\ 0 \in 0..MaxAccounts
    BY <1>1, OAuthAssumption DEF Unlink
  <2> QED BY <1>2, <2>1, <2>2
<1>6. /\ registered' \in [Identities -> Nat] /\ registered'[i] = 0
      /\ \A j \in Identities : j # i => registered'[j] = registered[j]
  BY <1>1, <1>2 DEF Unlink, OAuthInv, OAuthTypeOK
<1>7. ASSUME NEW j \in Identities PROVE LinkOf(j)' = LinkOf(j) \ {l} /\ (j # i => l \notin LinkOf(j))
  BY <1>2, <1>5 DEF LinkOf
<1>8. ASSUME NEW v, v # 0
      PROVE  LinksOf(v)' = LinksOf(v) \ {l} /\ (v # u => LinksOf(v)' = LinksOf(v))
  BY <1>4, <1>5, <1>8 DEF LinksOf
<1>9. LinksOnce'
  <2>1. \A m \in LinkIds : links'[m].user # 0 => m <= lastLink'
    BY <1>3, <1>5 DEF OAuthInv, LinksOnce
  <2>2. ASSUME NEW j \in Identities
        PROVE  /\ \A m, n \in LinkOf(j)' : m = n
               /\ registered'[j] \in {0, 1}
               /\ registered'[j] = 1 => LinkOf(j)' # {}
    <3>1. /\ \A m, n \in LinkOf(j) : m = n
          /\ registered[j] \in {0, 1} /\ (registered[j] = 1 => LinkOf(j) # {})
      BY DEF OAuthInv, LinksOnce
    <3> QED BY <1>6, <1>7, <3>1
  <2> QED BY <2>1, <2>2 DEF LinksOnce
<1>10. KeepsSignIn'
  <2> SUFFICES ASSUME NEW v \in Registered, calm[v] PROVE v \in passwords \/ LinksOf(v)' # {}
    BY <1>3 DEF KeepsSignIn, Registered
  <2>1. v # 0 /\ (v \in passwords \/ LinksOf(v) # {})
    BY DEF OAuthInv, KeepsSignIn, Registered
  <2>2. CASE v = u
    BY <1>4, <1>8, <2>1, <2>2 DEF Another
  <2>3. CASE v # u
    BY <1>8, <2>1, <2>3
  <2> QED BY <2>2, <2>3
<1>11. ASSUME NEW o \in Workers, NEW q \in OAuthRequest, o # r, q = areq[o], OAuthWork(q)
       PROVE  OAuthWork(q)'
  <2>1. q.pc \in {"others", "delete"} => links'[q.link].user \in {0, q.user}
    BY <1>5, <1>11 DEF OAuthWork, Leaving
  <2>2. q.pc = "delete" /\ calm[q.user] => q.user # u /\ q.user # 0
    <3>1. OAuthApart(areq[o], areq[r])
      BY <1>11 DEF OAuthInv
    <3>2. q.pc = "delete" => q.user # 0
      BY <1>11 DEF OAuthWork, Leaving, Registered
    <3> QED BY <1>1, <1>3, <1>11, <3>1, <3>2 DEF OAuthApart, Leaving
  <2>3. q.pc = "delete" /\ calm'[q.user] => Another(q.user, q.link)'
    BY <1>3, <1>8, <1>11, <2>2 DEF OAuthWork, Another
  <2>4. UNCHANGED Registered
    BY <1>3 DEF Registered
  <2> QED BY <1>3, <1>11, <2>1, <2>3, <2>4 DEF OAuthWork
<1>12. OAuthWork(AIdle)' /\ AIdle.pc \notin Racing /\ AIdle.pc \notin Leaving /\ AIdle \in OAuthRequest
  BY AIdleType DEF OAuthWork, Racing, Leaving
<1>13. /\ areq' \in [Workers -> OAuthRequest]
       /\ \A o \in Workers : OAuthWork(areq[o])'
       /\ \A p, o \in Workers : p # o => OAuthApart(areq[p], areq[o])'
  BY <1>3, <1>11, <1>12, AGoesOn
<1>14. OAuthTypeOK' /\ StatesOnce'
  BY <1>3, <1>5, <1>6, <1>13 DEF OAuthInv, OAuthTypeOK, StatesOnce
<1> QED BY <1>9, <1>10, <1>13, <1>14 DEF OAuthInv

LEMMA OAuthStep ==
    ASSUME OAuthInv, [OAuthNext]_oauthVars
    PROVE  OAuthInv'
<1>1. ASSUME NEW r \in Workers, AStep(r) PROVE OAuthInv'
  BY <1>1, AReads, AAccepts, AWaits, ALinks, AUnlinks DEF AStep
<1>2. ASSUME NEW r \in Workers, AAbort(r) PROVE OAuthInv'
  BY <1>2, AFails DEF AAbort
<1>3. CASE UNCHANGED oauthVars
  BY <1>3 DEF oauthVars, oauthRedis, oauthDb, oauthHistory, OAuthInv, OAuthTypeOK, StatesOnce,
     LinksOnce, KeepsSignIn, LinkOf, LinksOf, Registered, OAuthWork, Another, OAuthApart
<1> QED BY <1>1, <1>2, <1>3, AArrives, AStates DEF OAuthNext

(* An identity has at most one link, and no more users than links.         *)
LEMMA OneEach ==
    ASSUME OAuthInv
    PROVE  OAuthConsistent
<1>1. ASSUME NEW i \in Identities
      PROVE  registered[i] <= Cardinality(LinkOf(i)) /\ Cardinality(LinkOf(i)) <= 1
  <2>1. /\ \A l, m \in LinkOf(i) : l = m
        /\ registered[i] \in {0, 1} /\ (registered[i] = 1 => LinkOf(i) # {})
    BY DEF OAuthInv, LinksOnce
  <2>2. CASE LinkOf(i) = {}
    BY <2>1, <2>2, FS_EmptySet
  <2>3. CASE LinkOf(i) # {}
    <3>1. PICK l : LinkOf(i) = {l}
      BY <2>1, <2>3
    <3> QED BY <2>1, <3>1, FS_Singleton
  <2> QED BY <2>2, <2>3
<1>2. StateOnce
  BY DEF OAuthInv, StatesOnce, StateOnce
<1> QED BY <1>1, <1>2 DEF OAuthInv, OAuthConsistent, OneUserPerIdentity

(* An identity leads to one user however many registrations of it wait, a  *)
(* state is accepted once when no two callbacks race for it, and a user    *)
(* who unlinks one identity at a time keeps a way in (services/oauth.py).  *)
THEOREM IdentitiesStayConsistent == OAuthSpec => []OAuthConsistent
<1>1. OAuthInit => OAuthInv
  BY OAuthInitial
<1>2. OAuthInv /\ [OAuthNext]_oauthVars => OAuthInv'
  BY OAuthStep
<1>3. OAuthInv => OAuthConsistent
  BY OneEach
<1> QED BY <1>1, <1>2, <1>3, PTL DEF OAuthSpec

-----------------------------------------------------------------------------
(* Resets.  What a confirmation has found out about the user's links and   *)
(* sessions stays so when no other request of the user overlaps.           *)
Asking(u) == {r \in Workers : sreq[r].pc = "insert" /\ sreq[r].user = u}
AskedInBound ==
    \A u \in Users :
        Cardinality(Recent(u)) + Cardinality(Asking(u)) < MAX_REQUESTS_PER_HOUR + Cardinality(Workers)
ResetWork(q) ==
    /\ q.late => q.pc = "validate" /\ ~Live(q.id)
    /\ q.pc \in {"validate", "use", "others", "sessions", "commit"} =>
          q.id \in 1..lastToken /\ tokens[q.id].user = q.user
    /\ q.pc \in {"sessions", "commit"} /\ inTurn[q.user] =>
          \A i \in TokensOf(q.user) : ~tokens[i].used => i \in q.locked
    /\ q.pc = "commit" /\ inTurn[q.user] => \A s \in sessions : s[1] = q.user => s \in q.closed
ResetApart(p, q) == p.pc # "idle" /\ q.pc # "idle" /\ p.user = q.user => ~inTurn[p.user]
ResetInv ==
    /\ ResetTypeOK /\ AskedInBound /\ ResetStartsAfresh
    /\ \A r \in Workers : ResetWork(sreq[r])
    /\ \A r, o \in Workers : r # o => ResetApart(sreq[r], sreq[o])


LEMMA SIdleType ==
    SIdle \in ResetRequest /\ SIdle.pc = "idle" /\ ~SIdle.late /\ SIdle.id = 0 /\ SIdle.at = 0
    /\ SIdle.locked = {} /\ SIdle.closed = {}
<1>1. (CHOOSE u \in Users : TRUE) \in Users
  BY ResetAssumption
<1>2. 0 \in 0..MaxTokens /\ 0 \in Times
  BY ResetAssumption DEF Times
<1> QED BY <1>1, <1>2 DEF SIdle, ResetRequest

LEMMA SRanges ==
    ASSUME ResetTypeOK
    PROVE  /\ lastToken \in Nat /\ clock \in Nat /\ Times \subseteq Nat
           /\ 1..lastToken \subseteq TokenIds /\ TokenIds \subseteq 0..MaxTokens
           /\ \A i \in TokenIds : tokens[i] \in ResetToken
           /\ \A i \in TokenIds : tokens[i].at \in Nat /\ tokens[i].user \in Users
           /\ \A r \in Workers : sreq[r] \in ResetRequest
BY ResetAssumption DEF ResetTypeOK, ResetToken, TokenIds, Times

LEMMA SMoved ==
    ASSUME ResetTypeOK, NEW r \in Workers, NEW x \in ResetRequest, SBecome(r, x)
    PROVE  /\ sreq' \in [Workers -> ResetRequest] /\ sreq'[r] = x
           /\ \A q \in Workers : q # r => sreq'[q] = sreq[q]
BY DEF SBecome, ResetTypeOK

(* The links of an hour and those who ask for one can be counted. *)
LEMMA RecentCounted ==
    ASSUME ResetTypeOK, NEW u \in Users
    PROVE  /\ IsFiniteSet(Recent(u)) /\ IsFiniteSet(Asking(u))
           /\ Cardinality(Recent(u)) \in Nat /\ Cardinality(Asking(u)) \in Nat
           /\ Cardinality(Workers) \in Nat /\ Cardinality(Asking(u)) <= Cardinality(Workers)
<1>1. IsFiniteSet(1..lastToken)
  BY SRanges, FS_Interval
<1>2. Recent(u) \subseteq 1..lastToken /\ Asking(u) \subseteq Workers
  BY DEF Recent, TokensOf, Asking
<1>3. IsFiniteSet(Workers)
  BY ResetAssumption
<1> QED BY <1>1, <1>2, <1>3, FS_Subset, FS_CardinalityType

LEMMA AskedFewer ==
    ASSUME ResetTypeOK, AskedInBound,
           \A u \in Users : Recent(u)' \subseteq Recent(u) /\ Asking(u)' \subseteq Asking(u)
    PROVE  AskedInBound'
<1> SUFFICES ASSUME NEW u \in Users
             PROVE  Cardinality(Recent(u)') + Cardinality(Asking(u)')
                      < MAX_REQUESTS_PER_HOUR + Cardinality(Workers)
  BY DEF AskedInBound
<1>1. /\ Cardinality(Recent(u)') <= Cardinality(Recent(u)) /\ Cardinality(Recent(u)') \in Nat
      /\ Cardinality(Asking(u)') <= Cardinality(Asking(u)) /\ Cardinality(Asking(u)') \in Nat
  BY RecentCounted, FS_Subset, FS_CardinalityType
<1>2. Cardinality(Recent(u)) + Cardinality(Asking(u)) < MAX_REQUESTS_PER_HOUR + Cardinality(Workers)
  BY DEF AskedInBound
<1> QED BY <1>1, <1>2, RecentCounted, ResetAssumption

(* The requests after a step of r that leaves the history of overlaps. *)
LEMMA SGoesOn ==
    ASSUME ResetInv, NEW r \in Workers, NEW x \in ResetRequest, SBecome(r, x), UNCHANGED inTurn,
           ResetWork(x)', x.pc # "idle" => sreq[r].pc # "idle" /\ x.user = sreq[r].user,
           \A o \in Workers : \A q \in ResetRequest :
               o # r /\ q = sreq[o] /\ ResetWork(q) => ResetWork(q)'
    PROVE  /\ sreq' \in [Workers -> ResetRequest]
           /\ \A o \in Workers : ResetWork(sreq[o])'
           /\ \A p, o \in Workers : p # o => ResetApart(sreq[p], sreq[o])'
<1>1. /\ sreq' \in [Workers -> ResetRequest] /\ sreq'[r] = x
      /\ \A q \in Workers : q # r => sreq'[q] = sreq[q]
  BY SMoved DEF ResetInv
<1>2. ASSUME NEW o \in Workers PROVE ResetWork(sreq[o])'
  <2>1. PICK q \in ResetRequest : q = sreq'[o]
    BY <1>1
  <2>2. ResetWork(q)'
    BY <1>1, <2>1, SRanges DEF ResetInv
  <2> QED BY <2>1, <2>2 DEF ResetWork
<1>3. ASSUME NEW p \in Workers, NEW o \in Workers, p # o
      PROVE  ResetApart(sreq[p], sreq[o])'
  <2>1. ResetApart(sreq[p], sreq[o])
    BY <1>3 DEF ResetInv
  <2>2. CASE p = r
    BY <1>1, <1>3, <2>1, <2>2 DEF ResetApart
  <2>3. CASE o = r
    BY <1>1, <1>3, <2>1, <2>3 DEF ResetApart
  <2>4. CASE p # r /\ o # r
    BY <1>1, <2>1, <2>4 DEF ResetApart
  <2> QED BY <2>2, <2>3, <2>4
<1> QED BY <1>1, <1>2, <1>3

(* A request that is not about to insert a link takes a step. *)
LEMMA SQuiet ==
    ASSUME ResetTypeOK, NEW r \in Workers, NEW x \in ResetRequest, SBecome(r, x), x.pc # "insert",
           NEW u \in Users
    PROVE  Asking(u)' \subseteq Asking(u) \ {r}
BY SMoved DEF Asking

(* A request takes a step that writes no row. *)
LEMMA SLocal ==
    ASSUME ResetInv, NEW r \in Workers, NEW x \in ResetRequest, SBecome(r, x), SKeep, ResetWork(x),
           x.pc # "idle" => sreq[r].pc # "idle" /\ x.user = sreq[r].user,
           x.pc # "insert"
    PROVE  ResetInv'
<1>1. UNCHANGED <<tokens, lastToken, password, sessions, clock, inTurn>>
  BY DEF SKeep, resetDb
<1>2. \A q \in ResetRequest : ResetWork(q) => ResetWork(q)'
  BY <1>1 DEF ResetWork, Live, TokensOf
<1>3. /\ sreq' \in [Workers -> ResetRequest]
      /\ \A o \in Workers : ResetWork(sreq[o])'
      /\ \A p, o \in Workers : p # o => ResetApart(sreq[p], sreq[o])'
  BY <1>1, <1>2, SGoesOn
<1>4. ResetTypeOK'
  BY <1>1, <1>3 DEF ResetInv, ResetTypeOK
<1>5. AskedInBound'
  BY <1>1, SQuiet, AskedFewer DEF ResetInv, Recent, TokensOf
<1>6. ResetStartsAfresh'
  BY <1>1 DEF ResetInv, ResetStartsAfresh, TokensOf, Live
<1> QED BY <1>3, <1>4, <1>5, <1>6 DEF ResetInv

LEMMA SFails ==
    ASSUME ResetInv, NEW r \in Workers, SBecome(r, SIdle), SKeep
    PROVE  ResetInv'
BY SIdleType, SLocal DEF ResetWork

LEMMA ResetInitial == ResetInit => ResetInv
<1> SUFFICES ASSUME ResetInit PROVE ResetInv
  OBVIOUS
<1>1. /\ tokens = [i \in TokenIds |-> Unissued] /\ lastToken = 0
      /\ password = [u \in Users |-> 0] /\ sessions = {} /\ clock = 0
      /\ inTurn = [u \in Users |-> TRUE] /\ sreq = [r \in Workers |-> SIdle]
  BY DEF ResetInit
<1>2. Unissued \in ResetToken /\ 0 \in 0..MaxTokens /\ 0 \in Times /\ 0 \in Versions
  <2>1. (CHOOSE u \in Users : TRUE) \in Users
    BY ResetAssumption
  <2>2. 0 \in 0..MaxTokens /\ 0 \in Times /\ 0 \in Versions
    BY ResetAssumption DEF Times, Versions
  <2> QED BY <2>1, <2>2 DEF Unissued, ResetToken
<1>3. ResetTypeOK
  BY <1>1, <1>2, SIdleType DEF ResetTypeOK
<1>4. \A u : Recent(u) = {} /\ Asking(u) = {} /\ TokensOf(u) = {}
  BY <1>1, SIdleType DEF Recent, TokensOf, Asking
<1>5. AskedInBound
  BY <1>4, FS_EmptySet, RecentCounted, <1>3, ResetAssumption DEF AskedInBound
<1>6. ResetStartsAfresh
  BY <1>1, <1>4 DEF ResetStartsAfresh
<1>7. ResetWork(SIdle) /\ ResetApart(SIdle, SIdle)
  BY SIdleType DEF ResetWork, ResetApart
<1> QED BY <1>1, <1>3, <1>5, <1>6, <1>7 DEF ResetInv

(* A request arrives, and the history takes note of what it overlaps. *)
LEMMA SBegins ==
    ASSUME ResetInv, NEW r \in Workers, NEW x \in ResetRequest, SBegin(r, x), ResetWork(x),
           x.pc \in {"count", "validate"}
    PROVE  ResetInv'
<1>1. /\ sreq' \in [Workers -> ResetRequest] /\ sreq'[r] = x
      /\ \A q \in Workers : q # r => sreq'[q] = sreq[q]
  BY SMoved DEF ResetInv, SBegin
<1>2. UNCHANGED <<tokens, lastToken, password, sessions, clock>> /\ ~Busy(sreq, r)
  BY DEF SBegin, resetDb
<1>3. /\ inTurn' \in [Users -> BOOLEAN] /\ \A u \in Users : inTurn'[u] => inTurn[u]
      /\ x.user \in Users
      /\ inTurn'[x.user] => \A o \in InProgress(sreq, r) : o.user # x.user
  BY DEF SBegin, ResetInv, ResetTypeOK, ResetRequest
<1>4. ResetTypeOK'
  BY <1>1, <1>2, <1>3 DEF ResetInv, ResetTypeOK
<1>5. AskedInBound'
  BY <1>2, SQuiet, AskedFewer DEF ResetInv, Recent, TokensOf, SBegin
<1>6. ResetStartsAfresh'
  BY <1>2, <1>3 DEF ResetInv, ResetStartsAfresh, TokensOf, Live
<1>7. \A q \in ResetRequest : ResetWork(q) => ResetWork(q)'
  BY <1>2, <1>3 DEF ResetWork, Live, TokensOf, ResetRequest
<1>8. ASSUME NEW o \in Workers PROVE ResetWork(sreq[o])'
  <2>1. PICK q \in ResetRequest : q = sreq'[o]
    BY <1>1
  <2>2. ResetWork(q)'
    BY <1>1, <1>7, <2>1 DEF ResetInv
  <2> QED BY <2>1, <2>2 DEF ResetWork
<1>9. ASSUME NEW o \in Workers, o # r
      PROVE  sreq[o].pc # "idle" /\ sreq[o].user = x.user => ~inTurn'[x.user]
  <2>1. sreq[o].pc # "idle" => sreq[o] \in InProgress(sreq, r)
    BY <1>9, InProgressFacts
  <2> QED BY <1>3, <2>1
<1>10. ASSUME NEW p \in Workers, NEW o \in Workers, p # o
       PROVE  ResetApart(sreq[p], sreq[o])'
  <2>1. ResetApart(sreq[p], sreq[o]) /\ sreq[p] \in ResetRequest
    BY <1>10, SRanges DEF ResetInv
  <2>2. CASE p = r
    BY <1>1, <1>9, <1>10, <2>2 DEF ResetApart
  <2>3. CASE o = r
    BY <1>1, <1>9, <1>10, <2>3 DEF ResetApart
  <2>4. CASE p # r /\ o # r
    BY <1>1, <1>3, <2>1, <2>4 DEF ResetApart, ResetRequest
  <2> QED BY <2>2, <2>3, <2>4
<1> QED BY <1>4, <1>5, <1>6, <1>8, <1>10 DEF ResetInv

LEMMA SArrives ==
    ASSUME ResetInv, NEW r \in Workers, SArrive(r)
    PROVE  ResetInv'
<1>1. ASSUME NEW u \in Users, AskReset(r, u) PROVE ResetInv'
  <2> DEFINE x == [SIdle EXCEPT !.pc = "count", !.user = u, !.at = clock]
  <2>1. x \in ResetRequest /\ x.pc = "count" /\ ~x.late
    BY SIdleType DEF ResetInv, ResetTypeOK, ResetRequest
  <2>2. ResetWork(x)
    BY <2>1 DEF ResetWork
  <2>3. SBegin(r, x)
    BY <1>1 DEF AskReset
  <2> HIDE DEF x
  <2> QED BY <2>1, <2>2, <2>3, SBegins
<1>2. ASSUME NEW i \in 1..lastToken, Confirm(r, i) PROVE ResetInv'
  <2> DEFINE x == [SIdle EXCEPT !.pc = "validate", !.user = tokens[i].user, !.id = i,
                                !.late = ~Live(i)]
  <2>0. i \in 0..MaxTokens /\ tokens[i].user \in Users /\ (~Live(i)) \in BOOLEAN
    BY SRanges DEF ResetInv, Live
  <2>1. x \in ResetRequest /\ x.pc = "validate" /\ x.id = i /\ x.user = tokens[i].user
        /\ (x.late => ~Live(i))
    BY <2>0, SIdleType DEF ResetRequest
  <2>3. SBegin(r, x)
    BY <1>2 DEF Confirm
  <2> HIDE DEF x
  <2>2. ResetWork(x)
    BY <2>1 DEF ResetWork
  <2> QED BY <2>1, <2>2, <2>3, SBegins
<1> QED BY <1>1, <1>2 DEF SArrive

(* Who has counted may insert: as many more than the limit as there are    *)
(* workers, less the one who counts.                                       *)
LEMMA SCounts ==
    ASSUME ResetInv, NEW r \in Workers, CanRequestReset(r)
    PROVE  ResetInv'
<1>1. CASE SBecome(r, SIdle)
  BY <1>1, SFails DEF CanRequestReset
<1>2. CASE /\ SBecome(r, [sreq[r] EXCEPT !.pc = "insert"])
           /\ Cardinality(Recent(sreq[r].user)) < MAX_REQUESTS_PER_HOUR
  <2>1. PICK x \in ResetRequest : x = [sreq[r] EXCEPT !.pc = "insert"]
    BY SRanges DEF ResetInv, ResetRequest
  <2>2. /\ SBecome(r, x) /\ x.pc = "insert" /\ x.user = sreq[r].user /\ sreq[r].pc = "count"
        /\ x.user \in Users /\ ResetWork(x)
        /\ UNCHANGED <<tokens, lastToken, password, sessions, clock, inTurn>>
    BY <1>2, <2>1, SRanges
       DEF ResetInv, ResetRequest, CanRequestReset, SKeep, resetDb, ResetWork
  <2>3. \A q \in ResetRequest : ResetWork(q) => ResetWork(q)'
    BY <2>2 DEF ResetWork, Live, TokensOf
  <2>4. /\ sreq' \in [Workers -> ResetRequest]
        /\ \A o \in Workers : ResetWork(sreq[o])'
        /\ \A p, o \in Workers : p # o => ResetApart(sreq[p], sreq[o])'
    BY <2>2, <2>3, SGoesOn
  <2>5. ResetTypeOK'
    BY <2>2, <2>4 DEF ResetInv, ResetTypeOK
  <2>6. AskedInBound'
    <3> SUFFICES ASSUME NEW u \in Users
                 PROVE  Cardinality(Recent(u)') + Cardinality(Asking(u)')
                          < MAX_REQUESTS_PER_HOUR + Cardinality(Workers)
      BY DEF AskedInBound
    <3>1. Recent(u)' = Recent(u)
      BY <2>2 DEF Recent, TokensOf
    <3>2. CASE u = x.user
      <4>1. Asking(u)' \subseteq Workers
        BY DEF Asking
      <4>2. Cardinality(Asking(u)') \in Nat /\ Cardinality(Asking(u)') <= Cardinality(Workers)
        BY <4>1, FS_Subset, FS_CardinalityType, ResetAssumption
      <4> QED BY <1>2, <2>2, <3>1, <3>2, <4>2, RecentCounted, ResetAssumption DEF ResetInv
    <3>3. CASE u # x.user
      <4>1. Asking(u)' = Asking(u)
        BY <2>2, <3>3, SMoved DEF Asking, ResetInv
      <4> QED BY <3>1, <4>1 DEF ResetInv, AskedInBound
    <3> QED BY <3>2, <3>3
  <2>7. ResetStartsAfresh'
    BY <2>2 DEF ResetInv, ResetStartsAfresh, TokensOf, Live
  <2> QED BY <2>4, <2>5, <2>6, <2>7 DEF ResetInv
<1> QED BY <1>1, <1>2 DEF CanRequestReset

(* What a confirmation finds out before it commits. *)
LEMMA SFindsOut ==
    ASSUME ResetInv, NEW r \in Workers,
           ValidateToken(r) \/ UseToken(r) \/ InvalidateAll(r) \/ CloseSessions(r)
    PROVE  ResetInv'
<1> DEFINE q == sreq[r]
<1>0. q \in ResetRequest /\ ResetWork(q) /\ SKeep
  BY SRanges DEF ResetInv, ValidateToken, UseToken, InvalidateAll, CloseSessions
<1>1. CASE ValidateToken(r)
  <2> DEFINE x == [q EXCEPT !.pc = "use"]
  <2>1. q.pc = "validate" /\ (SBecome(r, SIdle) \/ (SBecome(r, x) /\ Live(q.id)))
    BY <1>1 DEF ValidateToken
  <2>2. x \in ResetRequest /\ x.pc = "use" /\ x.user = q.user /\ x.id = q.id /\ x.late = q.late
    BY <1>0 DEF ResetRequest
  <2> HIDE DEF x
  <2>3. Live(q.id) => ResetWork(x)
    BY <1>0, <2>1, <2>2 DEF ResetWork
  <2> QED BY <1>0, <2>1, <2>2, <2>3, SFails, SLocal
<1>2. CASE UseToken(r)
  <2> DEFINE x == [q EXCEPT !.pc = "others", !.locked = {q.id}]
  <2>1. q.pc = "use" /\ SBecome(r, x) /\ q.id \in TokenIds
    BY <1>0, <1>2, SRanges DEF UseToken, ResetWork, ResetInv
  <2>2. x \in ResetRequest /\ x.pc = "others" /\ x.user = q.user /\ x.id = q.id /\ x.late = q.late
    BY <1>0, <2>1 DEF ResetRequest
  <2> HIDE DEF x
  <2>3. ResetWork(x)
    BY <1>0, <2>1, <2>2 DEF ResetWork
  <2> QED BY <1>0, <2>1, <2>2, <2>3, SLocal
<1>3. CASE InvalidateAll(r)
  <2> DEFINE unused == {i \in TokensOf(q.user) : ~tokens[i].used}
             x == [q EXCEPT !.pc = "sessions", !.locked = @ \cup unused]
  <2>1. q.pc = "others" /\ SBecome(r, x) /\ unused \subseteq TokenIds
    BY <1>0, <1>3, SRanges DEF InvalidateAll, ResetInv, TokensOf
  <2>2. x \in ResetRequest /\ x.pc = "sessions" /\ x.user = q.user /\ x.id = q.id
        /\ x.late = q.late /\ unused \subseteq x.locked
    BY <1>0, <2>1 DEF ResetRequest
  <2>3. \A i \in TokensOf(q.user) : ~tokens[i].used => i \in unused
    OBVIOUS
  <2> HIDE DEF x, unused
  <2>4. ResetWork(x)
    BY <1>0, <2>1, <2>2, <2>3 DEF ResetWork
  <2> QED BY <1>0, <2>1, <2>2, <2>4, SLocal
<1>4. CASE CloseSessions(r)
  <2> DEFINE own == {s \in sessions : s[1] = q.user}
             x == [q EXCEPT !.pc = "commit", !.closed = own]
  <2>1. q.pc = "sessions" /\ SBecome(r, x) /\ own \subseteq Users \X Versions
    BY <1>0, <1>4 DEF CloseSessions, ResetInv, ResetTypeOK
  <2>2. x \in ResetRequest /\ x.pc = "commit" /\ x.user = q.user /\ x.id = q.id
        /\ x.late = q.late /\ x.locked = q.locked /\ x.closed = own
    BY <1>0, <2>1 DEF ResetRequest
  <2>3. \A s \in sessions : s[1] = q.user => s \in own
    OBVIOUS
  <2> HIDE DEF x, own
  <2>4. ResetWork(x)
    BY <1>0, <2>1, <2>2, <2>3 DEF ResetWork
  <2> QED BY <1>0, <2>1, <2>2, <2>4, SLocal
<1> QED BY <1>1, <1>2, <1>3, <1>4

(* A link is inserted: one more in the hour, one fewer who will ask. *)
LEMMA SInserts ==
    ASSUME ResetInv, NEW r \in Workers, CreateResetToken(r)
    PROVE  ResetInv'
<1>1. PICK n \in TokenIds : n = lastToken + 1
  BY ResetAssumption DEF CreateResetToken, ResetInv, ResetTypeOK, TokenIds
<1>2. PICK v \in Users : v = sreq[r].user
  BY SRanges DEF ResetInv, ResetRequest
<1>3. PICK t \in ResetToken :
          t = [user |-> v, at |-> sreq[r].at, used |-> FALSE, password |-> password[v]]
  BY SRanges DEF ResetInv, ResetTypeOK, ResetRequest, ResetToken
<1>4. /\ sreq[r].pc = "insert" /\ SBecome(r, SIdle) /\ lastToken' = n /\ n \in 0..MaxTokens
      /\ tokens' = [tokens EXCEPT ![n] = t]
      /\ UNCHANGED <<password, sessions, clock, inTurn>>
  BY <1>1, <1>2, <1>3, SRanges DEF CreateResetToken, ResetInv
<1>5. /\ tokens' \in [TokenIds -> ResetToken] /\ tokens'[n] = t
      /\ \A i \in TokenIds : i # n => tokens'[i] = tokens[i]
      /\ t.user = v /\ t.password = password[v]
  BY <1>3, <1>4 DEF ResetInv, ResetTypeOK
<1>6. 1..lastToken' = (1..lastToken) \cup {n} /\ n \notin 1..lastToken
      /\ 1..lastToken \subseteq TokenIds
  BY <1>1, <1>4, SRanges DEF ResetInv
<1>7. /\ TokensOf(v)' = TokensOf(v) \cup {n}
      /\ \A u \in Users : u # v => TokensOf(u)' = TokensOf(u)
  BY <1>5, <1>6 DEF TokensOf
<1>8. \A i \in 1..lastToken : tokens'[i] = tokens[i]
  BY <1>5, <1>6
<1>9. AskedInBound'
  <2> SUFFICES ASSUME NEW u \in Users
               PROVE  Cardinality(Recent(u)') + Cardinality(Asking(u)')
                        < MAX_REQUESTS_PER_HOUR + Cardinality(Workers)
    BY DEF AskedInBound
  <2>1. Cardinality(Recent(u)) + Cardinality(Asking(u))
          < MAX_REQUESTS_PER_HOUR + Cardinality(Workers)
    BY DEF ResetInv, AskedInBound
  <2>2. TokensOf(u) \subseteq 1..lastToken
    BY DEF TokensOf
  <2>3. Asking(u)' \subseteq Asking(u) \ {r}
    BY <1>4, SIdleType, SQuiet DEF ResetInv
  <2>4. /\ IsFiniteSet(Recent(u)) /\ IsFiniteSet(Asking(u))
        /\ Cardinality(Recent(u)) \in Nat /\ Cardinality(Asking(u)) \in Nat
        /\ Cardinality(Workers) \in Nat
    BY RecentCounted DEF ResetInv
  <2>5. CASE u = v
    <3>1. Recent(u)' \subseteq Recent(u) \cup {n}
      BY <1>4, <1>7, <1>8, <2>2, <2>5 DEF Recent
    <3>2. r \in Asking(u)
      BY <1>2, <1>4, <2>5 DEF Asking
    <3>3. /\ IsFiniteSet(Recent(u) \cup {n}) /\ Cardinality(Recent(u) \cup {n}) \in Nat
          /\ Cardinality(Recent(u) \cup {n}) <= Cardinality(Recent(u)) + 1
      <4>1. /\ IsFiniteSet(Recent(u) \cup {n})
            /\ \/ Cardinality(Recent(u) \cup {n}) = Cardinality(Recent(u))
               \/ Cardinality(Recent(u) \cup {n}) = Cardinality(Recent(u)) + 1
        BY <2>4, FS_AddElement
      <4> QED BY <2>4, <4>1
    <3>4. /\ IsFiniteSet(Asking(u) \ {r}) /\ Cardinality(Asking(u) \ {r}) = Cardinality(Asking(u)) - 1
      BY <2>4, <3>2, FS_RemoveElement
    <3>5. /\ Cardinality(Recent(u)') <= Cardinality(Recent(u)) + 1 /\ Cardinality(Recent(u)') \in Nat
      BY <2>4, <3>1, <3>3, FS_Subset, FS_CardinalityType
    <3>6. /\ Cardinality(Asking(u)') <= Cardinality(Asking(u)) - 1 /\ Cardinality(Asking(u)') \in Nat
      BY <2>3, <3>4, FS_Subset, FS_CardinalityType
    <3> QED BY <2>1, <2>4, <3>5, <3>6, ResetAssumption
  <2>6. CASE u # v
    <3>1. Recent(u)' \subseteq Recent(u)
      BY <1>4, <1>7, <1>8, <2>2, <2>6 DEF Recent
    <3>2. /\ Cardinality(Recent(u)') <= Cardinality(Recent(u)) /\ Cardinality(Recent(u)') \in Nat
      BY <2>4, <3>1, FS_Subset, FS_CardinalityType
    <3>3. /\ Cardinality(Asking(u)') <= Cardinality(Asking(u)) /\ Cardinality(Asking(u)') \in Nat
      BY <2>3, <2>4, FS_Subset, FS_CardinalityType
    <3> QED BY <2>1, <2>4, <3>2, <3>3, ResetAssumption
  <2> QED BY <2>5, <2>6
<1>10. ResetStartsAfresh'
  <2> SUFFICES ASSUME NEW u \in Users, inTurn[u]
               PROVE  /\ \A i \in TokensOf(u)' : Live(i)' => tokens'[i].password = password[u]
                      /\ \A s \in sessions : s[1] = u => s[2] = password[u]
    BY <1>4 DEF ResetStartsAfresh
  <2>1. /\ \A i \in TokensOf(u) : Live(i) => tokens[i].password = password[u]
        /\ \A s \in sessions : s[1] = u => s[2] = password[u]
    BY DEF ResetInv, ResetStartsAfresh
  <2>2. ASSUME NEW i \in TokensOf(u)', Live(i)' PROVE tokens'[i].password = password[u]
    <3>1. CASE i = n
      <4>1. tokens'[i].user = u
        BY DEF TokensOf
      <4> QED BY <1>5, <3>1, <4>1
    <3>2. CASE i # n
      <4>1. i \in TokensOf(u) /\ i \in 1..lastToken
        BY <1>7, <3>2 DEF TokensOf
      <4> QED BY <1>4, <1>8, <2>1, <2>2, <4>1 DEF Live
    <3> QED BY <3>1, <3>2
  <2> QED BY <2>1, <2>2
<1>11. ASSUME NEW o \in Workers, NEW q \in ResetRequest, o # r, q = sreq[o], ResetWork(q)
       PROVE  ResetWork(q)'
  <2>1. ResetApart(sreq[o], sreq[r])
    BY <1>11 DEF ResetInv
  <2>2. q.pc # "idle" /\ inTurn[q.user] => q.user # v
    BY <1>2, <1>4, <1>11, <2>1 DEF ResetApart
  <2>3. q.user \in Users
    BY DEF ResetRequest
  <2>4. q.pc \in {"validate", "use", "others", "sessions", "commit"} =>
          /\ q.id \in 1..lastToken /\ q.id \in 1..lastToken'
          /\ tokens'[q.id] = tokens[q.id] /\ tokens[q.id].user = q.user
    BY <1>6, <1>8, <1>11 DEF ResetWork
  <2>5. q.late => ~Live(q.id)'
    BY <1>4, <1>11, <2>4 DEF ResetWork, Live
  <2>6. q.pc \in {"sessions", "commit"} /\ inTurn'[q.user] =>
          \A i \in TokensOf(q.user)' : ~tokens'[i].used => i \in q.locked
    <3> SUFFICES ASSUME q.pc \in {"sessions", "commit"}, inTurn'[q.user],
                        NEW i \in TokensOf(q.user)', ~tokens'[i].used
                 PROVE  i \in q.locked
      OBVIOUS
    <3>1. i \in TokensOf(q.user) /\ i \in 1..lastToken
      BY <1>4, <1>7, <2>2, <2>3 DEF TokensOf
    <3> QED BY <1>4, <1>8, <1>11, <3>1 DEF ResetWork
  <2> QED BY <1>4, <1>11, <2>4, <2>5, <2>6 DEF ResetWork
<1>12. ResetWork(SIdle)' /\ SIdle \in ResetRequest
  BY SIdleType DEF ResetWork
<1>13. /\ sreq' \in [Workers -> ResetRequest]
       /\ \A o \in Workers : ResetWork(sreq[o])'
       /\ \A p, o \in Workers : p # o => ResetApart(sreq[p], sreq[o])'
  BY <1>4, <1>11, <1>12, SIdleType, SGoesOn
<1>14. ResetTypeOK'
  BY <1>4, <1>5, <1>13 DEF ResetInv, ResetTypeOK
<1> QED BY <1>9, <1>10, <1>13, <1>14 DEF ResetInv

(* A reset commits: it has marked every other link and found every session *)
(* of a user whose requests do not overlap.                                *)
LEMMA SCommits ==
    ASSUME ResetInv, NEW r \in Workers, CommitReset(r)
    PROVE  ResetInv'
<1> DEFINE q == sreq[r]
<1>1. PICK u \in Users : u = q.user
  BY SRanges DEF ResetInv, ResetRequest
<1>2. /\ q.pc = "commit" /\ SBecome(r, SIdle) /\ ResetWork(q)
      /\ sessions' = sessions \ q.closed
      /\ UNCHANGED <<lastToken, clock, inTurn>>
  BY DEF CommitReset, ResetInv
<1>3. /\ password' \in [Users -> Versions]
      /\ \A v \in Users : v # u => password'[v] = password[v]
  <2>1. password[u] \in Versions /\ password[u] < MaxChanges
        /\ password' = [password EXCEPT ![u] = @ + 1]
    BY <1>1 DEF CommitReset, ResetInv, ResetTypeOK
  <2>2. password[u] + 1 \in Versions
    BY <2>1, ResetAssumption DEF Versions
  <2> QED BY <2>1, <2>2 DEF ResetInv, ResetTypeOK
<1>4. /\ tokens' \in [TokenIds -> ResetToken]
      /\ \A i \in TokenIds :
            /\ tokens'[i].user = tokens[i].user /\ tokens'[i].at = tokens[i].at
            /\ tokens'[i].password = tokens[i].password
            /\ ~tokens'[i].used => ~tokens[i].used /\ i \notin q.locked
  <2>1. tokens' = [i \in TokenIds |-> IF i \in q.locked THEN [tokens[i] EXCEPT !.used = TRUE]
                                      ELSE tokens[i]]
    BY DEF CommitReset
  <2>2. ASSUME NEW i \in TokenIds
        PROVE  [tokens[i] EXCEPT !.used = TRUE] \in ResetToken /\ tokens[i] \in ResetToken
    BY SRanges DEF ResetInv, ResetToken
  <2>3. tokens' \in [TokenIds -> ResetToken]
    BY <2>1, <2>2
  <2>4. ASSUME NEW i \in TokenIds
        PROVE  /\ tokens'[i].user = tokens[i].user /\ tokens'[i].at = tokens[i].at
               /\ tokens'[i].password = tokens[i].password
               /\ ~tokens'[i].used => ~tokens[i].used /\ i \notin q.locked
    <3>1. CASE i \in q.locked
      <4>1. tokens'[i] = [tokens[i] EXCEPT !.used = TRUE]
        BY <2>1, <3>1
      <4> QED BY <2>2, <4>1 DEF ResetToken
    <3>2. CASE i \notin q.locked
      BY <2>1, <3>2
    <3> QED BY <3>1, <3>2
  <2> QED BY <2>3, <2>4
<1>5. \A v : TokensOf(v)' = TokensOf(v) /\ TokensOf(v) \subseteq TokenIds
  BY <1>2, <1>4, SRanges DEF ResetInv, TokensOf
<1>6. \A i \in TokenIds : Live(i)' => Live(i) /\ i \notin q.locked /\ ~tokens[i].used
  BY <1>2, <1>4 DEF Live
<1>7. AskedInBound'
  <2>1. ASSUME NEW v \in Users PROVE Recent(v)' = Recent(v)
    BY <1>2, <1>4, <1>5 DEF Recent
  <2>2. ASSUME NEW v \in Users PROVE Asking(v)' \subseteq Asking(v)
    BY <1>2, SIdleType, SQuiet DEF ResetInv
  <2> QED BY <2>1, <2>2, AskedFewer DEF ResetInv
<1>8. ResetStartsAfresh'
  <2> SUFFICES ASSUME NEW v \in Users, inTurn[v]
               PROVE  /\ \A i \in TokensOf(v) : Live(i)' => tokens'[i].password = password'[v]
                      /\ \A s \in sessions' : s[1] = v => s[2] = password'[v]
    BY <1>2, <1>5 DEF ResetStartsAfresh
  <2>1. CASE v = u
    <3>1. \A i \in TokensOf(v) : ~tokens[i].used => i \in q.locked
      BY <1>1, <1>2, <2>1 DEF ResetWork
    <3>2. \A s \in sessions : s[1] = v => s \in q.closed
      BY <1>1, <1>2, <2>1 DEF ResetWork
    <3> QED BY <1>2, <1>5, <1>6, <3>1, <3>2
  <2>2. CASE v # u
    <3>1. /\ \A i \in TokensOf(v) : Live(i) => tokens[i].password = password[v]
          /\ \A s \in sessions : s[1] = v => s[2] = password[v]
      BY DEF ResetInv, ResetStartsAfresh
    <3> QED BY <1>2, <1>3, <1>4, <1>5, <1>6, <2>2, <3>1
  <2> QED BY <2>1, <2>2
<1>9. ASSUME NEW o \in Workers, NEW p \in ResetRequest, o # r, p = sreq[o], ResetWork(p)
      PROVE  ResetWork(p)'
  <2>1. p.pc \in {"validate", "use", "others", "sessions", "commit"} =>
          p.id \in 1..lastToken' /\ tokens'[p.id].user = p.user /\ p.id \in TokenIds
    BY <1>2, <1>4, <1>9, SRanges DEF ResetWork, ResetInv
  <2>2. p.late => p.pc = "validate" /\ ~Live(p.id)'
    BY <1>6, <1>9, <2>1 DEF ResetWork
  <2>3. p.pc \in {"sessions", "commit"} /\ inTurn'[p.user] =>
          \A i \in TokensOf(p.user)' : ~tokens'[i].used => i \in p.locked
    BY <1>2, <1>4, <1>5, <1>9 DEF ResetWork
  <2>4. p.pc = "commit" /\ inTurn'[p.user] => \A s \in sessions' : s[1] = p.user => s \in p.closed
    BY <1>2, <1>9 DEF ResetWork
  <2> QED BY <2>1, <2>2, <2>3, <2>4 DEF ResetWork
<1>10. ResetWork(SIdle)' /\ SIdle \in ResetRequest
  BY SIdleType DEF ResetWork
<1>11. /\ sreq' \in [Workers -> ResetRequest]
       /\ \A o \in Workers : ResetWork(sreq[o])'
       /\ \A p, o \in Workers : p # o => ResetApart(sreq[p], sreq[o])'
  BY <1>2, <1>9, <1>10, SIdleType, SGoesOn
<1>12. ResetTypeOK'
  BY <1>2, <1>3, <1>4, <1>11 DEF ResetInv, ResetTypeOK
<1> QED BY <1>7, <1>8, <1>11, <1>12 DEF ResetInv

(* A user signs in: no reset of hers is in progress if all are in turn. *)
LEMMA SessionOpens ==
    ASSUME ResetInv, NEW u \in Users, OpenedSession(u)
    PROVE  ResetInv'
<1>1. /\ sessions' = sessions \cup {<<u, password[u]>>}
      /\ UNCHANGED <<tokens, lastToken, password, clock, sreq>>
      /\ password[u] \in Versions
  BY DEF OpenedSession, ResetInv, ResetTypeOK
<1>2. /\ inTurn' \in [Users -> BOOLEAN] /\ \A v \in Users : inTurn'[v] => inTurn[v]
      /\ inTurn'[u] => \A r \in Workers : Busy(sreq, r) => sreq[r].user # u
  BY DEF OpenedSession, ResetInv, ResetTypeOK
<1>3. ResetTypeOK'
  BY <1>1, <1>2 DEF ResetInv, ResetTypeOK
<1>4. AskedInBound'
  BY <1>1 DEF ResetInv, AskedInBound, Recent, TokensOf, Asking
<1>5. ResetStartsAfresh'
  <2> SUFFICES ASSUME NEW v \in Users, inTurn'[v]
               PROVE  /\ \A i \in TokensOf(v) : Live(i) => tokens[i].password = password[v]
                      /\ \A s \in sessions' : s[1] = v => s[2] = password[v]
    BY <1>1 DEF ResetStartsAfresh, TokensOf, Live
  <2>1. /\ \A i \in TokensOf(v) : Live(i) => tokens[i].password = password[v]
        /\ \A s \in sessions : s[1] = v => s[2] = password[v]
    BY <1>2 DEF ResetInv, ResetStartsAfresh
  <2> QED BY <1>1, <2>1
<1>6. ASSUME NEW r \in Workers PROVE ResetWork(sreq[r])'
  <2>1. PICK q \in ResetRequest : q = sreq[r]
    BY SRanges DEF ResetInv
  <2>2. ResetWork(q) /\ q.user \in Users
    BY <2>1 DEF ResetInv, ResetRequest
  <2>3. q.pc = "commit" /\ inTurn'[q.user] => q.user # u /\ inTurn[q.user]
    BY <1>2, <2>1, <2>2 DEF Busy
  <2>4. q.pc \in {"sessions", "commit"} /\ inTurn'[q.user] => inTurn[q.user]
    BY <1>2, <2>2
  <2>5. q.pc = "commit" /\ inTurn'[q.user] => \A s \in sessions' : s[1] = q.user => s \in q.closed
    BY <1>1, <2>2, <2>3 DEF ResetWork
  <2>6. ResetWork(q)'
    BY <1>1, <2>2, <2>4, <2>5 DEF ResetWork, Live, TokensOf
  <2> QED BY <1>1, <2>1, <2>6
<1>7. ASSUME NEW r \in Workers, NEW o \in Workers, r # o PROVE ResetApart(sreq[r], sreq[o])'
  BY <1>1, <1>2, <1>7, SRanges DEF ResetInv, ResetApart, ResetRequest
<1> QED BY <1>3, <1>4, <1>5, <1>6, <1>7 DEF ResetInv

(* An hour passes: fewer links are live, fewer are recent. *)
LEMMA HourPasses ==
    ASSUME ResetInv, Hour
    PROVE  ResetInv'
<1>1. /\ clock' = clock + 1 /\ clock' \in Times
      /\ UNCHANGED <<tokens, lastToken, password, sessions, inTurn, sreq>>
  BY ResetAssumption DEF Hour, ResetInv, ResetTypeOK, Times, resetDb
<1>2. \A i \in TokenIds : Live(i)' => Live(i)
  BY <1>1, SRanges, ResetAssumption DEF ResetInv, Live
<1>3. \A v : TokensOf(v)' = TokensOf(v) /\ TokensOf(v) \subseteq TokenIds
  BY <1>1, SRanges DEF ResetInv, TokensOf
<1>4. ResetTypeOK'
  BY <1>1 DEF ResetInv, ResetTypeOK
<1>5. AskedInBound'
  <2>1. ASSUME NEW v \in Users PROVE Recent(v)' \subseteq Recent(v) /\ Asking(v)' = Asking(v)
    BY <1>1, <1>3, SRanges, ResetAssumption DEF ResetInv, Recent, Asking
  <2> QED BY <2>1, AskedFewer DEF ResetInv
<1>6. ResetStartsAfresh'
  BY <1>1, <1>2, <1>3 DEF ResetInv, ResetStartsAfresh
<1>7. ASSUME NEW r \in Workers PROVE ResetWork(sreq[r])'
  <2>1. ResetWork(sreq[r])
    BY DEF ResetInv
  <2>2. sreq[r].pc = "validate" => sreq[r].id \in TokenIds
    BY <2>1, SRanges DEF ResetWork, ResetInv
  <2> QED BY <1>1, <1>2, <1>3, <2>1, <2>2 DEF ResetWork
<1>8. ASSUME NEW r \in Workers, NEW o \in Workers, r # o PROVE ResetApart(sreq[r], sreq[o])'
  BY <1>1, <1>8 DEF ResetInv, ResetApart
<1> QED BY <1>4, <1>5, <1>6, <1>7, <1>8 DEF ResetInv

LEMMA ResetStep ==
    ASSUME ResetInv, [ResetNext]_resetVars
    PROVE  ResetInv'
<1>1. ASSUME NEW r \in Workers, SStep(r) PROVE ResetInv'
  BY <1>1, SCounts, SInserts, SFindsOut, SCommits DEF SStep
<1>2. ASSUME NEW r \in Workers, SAbort(r) PROVE ResetInv'
  BY <1>2, SFails DEF SAbort, SFail, SKeep
<1>3. CASE UNCHANGED resetVars
  BY <1>3 DEF resetVars, resetDb, ResetInv, ResetTypeOK, AskedInBound, ResetStartsAfresh, Recent,
     TokensOf, Asking, Live, ResetWork, ResetApart
<1> QED BY <1>1, <1>2, <1>3, SArrives, SessionOpens, HourPasses DEF ResetNext

(* However many ask at once, the links of an hour stay within the limit    *)
(* and the workers; a dead link never resets a password; and a reset in    *)
(* turn leaves no link and no session of before (services/password_reset.py). *)
THEOREM ResetsStayConsistent == ResetSpec => []ResetsConsistent
<1>1. ResetInit => ResetInv
  BY ResetInitial
<1>2. ResetInv /\ [ResetNext]_resetVars => ResetInv'
  BY ResetStep
<1>3. ResetInv => ResetsConsistent
  <2> SUFFICES ASSUME ResetInv PROVE ResetsConsistent
    OBVIOUS
  <2>1. ASSUME NEW u \in Users
        PROVE  Cardinality(Recent(u)) < MAX_REQUESTS_PER_HOUR + Cardinality(Workers)
    BY RecentCounted, ResetAssumption DEF ResetInv, AskedInBound
  <2>2. NoLateReset
    BY DEF ResetInv, ResetWork, NoLateReset
  <2> QED BY <2>1, <2>2 DEF ResetInv, ResetsConsistent, LinksBounded
<1> QED BY <1>1, <1>2, <1>3, PTL DEF ResetSpec

-----------------------------------------------------------------------------
(***************************************************************************)
(* The rate limiter.  Nothing is counted that was not asked, and a request *)
(* whose pipeline is still to run is asked but not counted (Pending).      *)
(* What a window let through is at most what the memories hold of it, or   *)
(* the limit for each when it is over, and besides                         *)
(*   - what Redis holds of it, up to the limit, or                         *)
(*   - once a later request dropped some of its stamps, the limit and one  *)
(*     for each process that shares Redis, except for that one and for     *)
(*     those whose requests of the window are still under way: no other    *)
(*     can be stamped in it any more.                                      *)
(***************************************************************************)
Window(s) == {x \in Stamps : s - WINDOW < x /\ x <= s}
Cleaned(f, b) == [x \in Stamps |-> IF x <= b THEN 0 ELSE f[x]]
Pending(k, s) == {p \in Workers : freq[p].pc = "pipeline" /\ freq[p].key = k /\ freq[p].at = s}
Late(k, s) == {p \in Workers : freq[p].pc = "pipeline" /\ freq[p].key = k /\ freq[p].at <= s}
InMemories(k, s) ==
    SumFunctionOnSet([p \in Workers |-> IF s >= time THEN InWindow(memory[p][k], s) ELSE Limit[k]],
                     Workers \ shares)

RateStamped == \A p \in Workers : freq[p].pc = "pipeline" => p \in shares /\ freq[p].at <= time
RateCounted == \A k \in Keys, x \in Stamps :
    /\ zset[k][x] + Cardinality(Pending(k, x)) <= asked[k][x]
    /\ let[k][x] + Cardinality(Pending(k, x)) <= asked[k][x]
    /\ \A p \in Workers : memory[p][k][x] <= asked[k][x]
RateMemory == \A p \in Workers, k \in Keys : After(memory[p][k], -1) <= Limit[k]
RateWindow == \A k \in Keys, s \in Stamps :
    \/ /\ InWindow(let[k], s) <= InMemories(k, s) + InWindow(zset[k], s)
       /\ InWindow(let[k], s) <= InMemories(k, s) + Limit[k]
    \/ /\ shares # {} /\ time > s
       /\ InWindow(let[k], s) + Cardinality(Late(k, s))
             <= InMemories(k, s) + Limit[k] + Cardinality(shares) - 1
RateInv ==
    /\ RateTypeOK /\ RateStamped /\ RateCounted /\ RateMemory /\ RateWindow /\ RefusedAboveLimit
    /\ shares = {} => zset = NoStamps

LEMMA StampSets ==
    /\ IsFiniteSet(Stamps) /\ Stamps \subseteq Int
    /\ {x \in Stamps : x > -1} = Stamps
    /\ \A s \in Int : /\ {x \in Stamps : x > s} \in SUBSET Stamps
                      /\ IsFiniteSet({x \in Stamps : x > s})
    /\ \A s \in Stamps : Window(s) \in SUBSET Stamps /\ IsFiniteSet(Window(s))
<1>1. IsFiniteSet(Stamps) /\ Stamps \subseteq Int /\ {x \in Stamps : x > -1} = Stamps
  <2>1. MaxInstants \in Nat /\ Stamps = 0..MaxInstants
    BY RateAssumption DEF Stamps
  <2>2. IsFiniteSet(Stamps)
    BY <2>1, FS_Interval
  <2> QED BY <2>1, <2>2
<1>2. \A s \in Int : {x \in Stamps : x > s} \in SUBSET Stamps
  OBVIOUS
<1>3. \A s \in Stamps : Window(s) \in SUBSET Stamps
  BY DEF Window
<1> QED BY <1>1, <1>2, <1>3, FS_Subset

LEMMA WindowSums ==
    ASSUME NEW f \in [Stamps -> Nat]
    PROVE  /\ After(f, -1) = SumFunctionOnSet(f, Stamps)
           /\ \A s \in Int : After(f, s) \in Nat /\ After(f, s) <= After(f, -1)
           /\ \A s \in Stamps : /\ InWindow(f, s) = SumFunctionOnSet(f, Window(s))
                                /\ InWindow(f, s) \in Nat /\ InWindow(f, s) <= After(f, -1)
<1>1. After(f, -1) = SumFunctionOnSet(f, Stamps)
  BY StampSets DEF After
<1>2. ASSUME NEW s \in Int PROVE After(f, s) \in Nat /\ After(f, s) <= After(f, -1)
  <2>1. PICK S \in SUBSET Stamps : S = {x \in Stamps : x > s} /\ IsFiniteSet(S)
    BY StampSets
  <2>2. After(f, s) = SumFunctionOnSet(f, S)
    BY <2>1 DEF After
  <2>3. SumFunctionOnSet(f, S) \in Nat
    BY <2>1, SumNat
  <2>4. SumFunctionOnSet(f, S) <= SumFunctionOnSet(f, Stamps)
    BY <2>1, StampSets, SumOfSubset
  <2> QED BY <1>1, <2>2, <2>3, <2>4
<1>3. ASSUME NEW s \in Stamps
      PROVE  /\ InWindow(f, s) = SumFunctionOnSet(f, Window(s))
             /\ InWindow(f, s) \in Nat /\ InWindow(f, s) <= After(f, -1)
  <2>1. PICK S \in SUBSET Stamps : S = Window(s) /\ IsFiniteSet(S)
    BY StampSets
  <2>2. InWindow(f, s) = SumFunctionOnSet(f, S)
    BY <2>1 DEF InWindow, Window
  <2>3. SumFunctionOnSet(f, S) \in Nat
    BY <2>1, SumNat
  <2>4. SumFunctionOnSet(f, S) <= SumFunctionOnSet(f, Stamps)
    BY <2>1, StampSets, SumOfSubset
  <2> QED BY <1>1, <2>1, <2>2, <2>3, <2>4
<1> QED BY <1>1, <1>2, <1>3

(* One request more. *)
LEMMA OneMoreAt ==
    ASSUME NEW f \in [Stamps -> Nat], NEW a \in Stamps, NEW g, g = [f EXCEPT ![a] = @ + 1]
    PROVE  g \in [Stamps -> Nat] /\ g[a] = f[a] + 1 /\ \A x \in Stamps \ {a} : g[x] = f[x]
OBVIOUS

LEMMA OneMore ==
    ASSUME NEW f \in [Stamps -> Nat], NEW a \in Stamps, NEW g \in [Stamps -> Nat],
           g[a] = f[a] + 1, \A x \in Stamps \ {a} : g[x] = f[x], NEW S \in SUBSET Stamps
    PROVE  /\ a \in S => SumFunctionOnSet(g, S) = SumFunctionOnSet(f, S) + 1
           /\ a \notin S => SumFunctionOnSet(g, S) = SumFunctionOnSet(f, S)
<1>1. IsFiniteSet(S)
  BY StampSets, FS_Subset
<1>2. \A x \in S : f[x] \in Nat /\ g[x] \in Nat
  OBVIOUS
<1>3. \A x \in S \ {a} : g[x] = f[x]
  OBVIOUS
<1>4. ASSUME a \in S PROVE SumFunctionOnSet(g, S) = SumFunctionOnSet(f, S) + 1
  BY <1>1, <1>2, <1>3, <1>4, SumOneMore
<1>5. ASSUME a \notin S PROVE SumFunctionOnSet(g, S) = SumFunctionOnSet(f, S)
  <2>1. \A x \in S : g[x] = f[x]
    BY <1>3, <1>5
  <2> QED BY <1>1, <2>1, SumSame
<1> QED BY <1>4, <1>5

(* Dropping the stamps up to b leaves the windows that end later as they   *)
(* were.                                                                   *)
LEMMA CleanedWindow ==
    ASSUME NEW f \in [Stamps -> Nat], NEW b \in Int
    PROVE  /\ Cleaned(f, b) \in [Stamps -> Nat]
           /\ \A x \in Stamps : Cleaned(f, b)[x] <= f[x]
           /\ After(Cleaned(f, b), -1) = After(f, b)
           /\ \A s \in Stamps : b <= s - WINDOW => InWindow(Cleaned(f, b), s) = InWindow(f, s)
<1> DEFINE g == Cleaned(f, b)
<1>1. /\ g \in [Stamps -> Nat] /\ \A x \in Stamps : g[x] <= f[x]
      /\ \A x \in Stamps : IF x <= b THEN g[x] = 0 ELSE g[x] = f[x]
  BY DEF Cleaned
<1> HIDE DEF g
<1>2. After(g, -1) = After(f, b)
  <2>1. PICK S \in SUBSET Stamps : S = {x \in Stamps : x > b} /\ IsFiniteSet(S)
    BY StampSets
  <2>2. After(f, b) = SumFunctionOnSet(f, S) /\ After(g, -1) = SumFunctionOnSet(g, Stamps)
    BY <1>1, <2>1, WindowSums DEF After
  <2>3. (\A x \in Stamps \ S : g[x] = 0) /\ \A x \in S : g[x] = f[x]
    BY <1>1, <2>1, StampSets
  <2>4. SumFunctionOnSet(g, Stamps) = SumFunctionOnSet(g, S)
    <3>1. \A x \in Stamps : g[x] \in Int
      BY <1>1
    <3> QED BY <2>3, <3>1, StampSets, SumOfSupport
  <2>5. SumFunctionOnSet(g, S) = SumFunctionOnSet(f, S)
    BY <2>1, <2>3, SumSame
  <2> QED BY <2>2, <2>4, <2>5
<1>3. ASSUME NEW s \in Stamps, b <= s - WINDOW PROVE InWindow(g, s) = InWindow(f, s)
  <2>1. \A x \in Window(s) : g[x] = f[x]
    BY <1>1, <1>3, StampSets, RateAssumption DEF Window
  <2>2. SumFunctionOnSet(g, Window(s)) = SumFunctionOnSet(f, Window(s))
    BY <2>1, StampSets, SumSame
  <2> QED BY <1>1, <2>2, WindowSums
<1> QED BY <1>1, <1>2, <1>3 DEF g

LEMMA InMemoriesNat ==
    ASSUME RateTypeOK, NEW k \in Keys, NEW s \in Stamps
    PROVE  /\ InMemories(k, s) \in Nat
           /\ \A p \in Workers : InWindow(memory[p][k], s) \in Nat
<1> DEFINE f == [p \in Workers |-> IF s >= time THEN InWindow(memory[p][k], s) ELSE Limit[k]]
<1>1. \A p \in Workers : InWindow(memory[p][k], s) \in Nat
  <2>1. ASSUME NEW p \in Workers PROVE memory[p][k] \in [Stamps -> Nat]
    BY DEF RateTypeOK, Counters
  <2> QED BY <2>1, WindowSums
<1>2. \A p \in Workers \ shares : f[p] \in Nat
  BY <1>1, RateAssumption
<1> HIDE DEF f
<1>3. IsFiniteSet(Workers \ shares)
  BY RateAssumption, FS_Subset
<1>4. SumFunctionOnSet(f, Workers \ shares) \in Nat
  BY <1>2, <1>3, SumNat
<1> QED BY <1>1, <1>4 DEF InMemories, f

LEMMA CountsOfPending ==
    ASSUME NEW k \in Keys, NEW s \in Stamps
    PROVE  /\ IsFiniteSet(Pending(k, s)) /\ Cardinality(Pending(k, s)) \in Nat
           /\ IsFiniteSet(Late(k, s)) /\ Cardinality(Late(k, s)) \in Nat
<1>1. Pending(k, s) \subseteq Workers /\ Late(k, s) \subseteq Workers
  BY DEF Pending, Late
<1> QED BY <1>1, RateAssumption, FS_Subset, FS_CardinalityType

LEMMA FIdleType == FIdle \in CheckRequest
BY RateAssumption DEF FIdle, CheckRequest, Stamps

LEMMA NothingCounted ==
    ASSUME NEW k \in Keys
    PROVE  /\ NoStamps \in Counters /\ NoStamps[k] \in [Stamps -> Nat]
           /\ \A x \in Stamps : NoStamps[k][x] = 0
           /\ After(NoStamps[k], -1) = 0
           /\ \A s \in Stamps : InWindow(NoStamps[k], s) = 0
<1>1. PICK f \in [Stamps -> Nat] : f = NoStamps[k] /\ \A x \in Stamps : f[x] = 0
  <2>1. PICK f : f = [x \in Stamps |-> 0]
    OBVIOUS
  <2>2. f \in [Stamps -> Nat] /\ \A x \in Stamps : f[x] = 0
    BY <2>1
  <2>3. f = NoStamps[k]
    BY <2>1 DEF NoStamps
  <2> QED BY <2>2, <2>3
<1>2. After(f, -1) = 0
  <2>1. SumFunctionOnSet(f, Stamps) = 0
    BY <1>1, StampSets, SumZero
  <2> QED BY <2>1, WindowSums
<1>3. ASSUME NEW s \in Stamps PROVE InWindow(f, s) = 0
  <2>1. \A x \in Window(s) : f[x] = 0
    BY <1>1, StampSets
  <2>2. SumFunctionOnSet(f, Window(s)) = 0
    BY <2>1, StampSets, SumZero
  <2> QED BY <2>2, WindowSums
<1>4. NoStamps \in Counters
  BY RateAssumption DEF NoStamps, Counters
<1> QED BY <1>1, <1>2, <1>3, <1>4

LEMMA RateInitInv == RateInit => RateInv
<1> SUFFICES ASSUME RateInit PROVE RateInv
  OBVIOUS
<1>1. /\ zset = NoStamps /\ asked = NoStamps /\ let = NoStamps /\ time = 0 /\ denied = {}
      /\ shares \subseteq Workers /\ redisUp \in BOOLEAN
      /\ \A p \in Workers : memory[p] = NoStamps /\ freq[p] = FIdle
      /\ memory = [p \in Workers |-> NoStamps] /\ freq \in [Workers -> CheckRequest]
  BY FIdleType DEF RateInit
<1>2. RateTypeOK
  <2>1. NoStamps \in Counters /\ 0 \in Stamps
    BY NothingCounted, RateAssumption DEF Stamps
  <2> QED BY <1>1, <2>1 DEF RateTypeOK
<1>3. RateStamped /\ \A k, s : Pending(k, s) = {}
  BY <1>1 DEF RateStamped, Pending, FIdle
<1>4. RateCounted
  <2>1. Cardinality({}) = 0
    BY FS_EmptySet
  <2>2. ASSUME NEW k \in Keys, NEW x \in Stamps
        PROVE  /\ Cardinality(Pending(k, x)) = 0 /\ zset[k][x] = 0 /\ let[k][x] = 0 /\ asked[k][x] = 0
               /\ \A p \in Workers : memory[p][k][x] = 0
    <3>1. NoStamps[k][x] = 0
      BY NothingCounted
    <3>2. Cardinality(Pending(k, x)) = 0
      BY <1>3, <2>1
    <3> QED BY <1>1, <3>1, <3>2
  <2> QED BY <2>2 DEF RateCounted
<1>5. RateMemory
  <2>1. ASSUME NEW p \in Workers, NEW k \in Keys PROVE After(memory[p][k], -1) <= Limit[k]
    <3>1. After(memory[p][k], -1) = 0
      BY <1>1, NothingCounted
    <3> QED BY <3>1, RateAssumption
  <2> QED BY <2>1 DEF RateMemory
<1>6. RateWindow
  <2>1. ASSUME NEW k \in Keys, NEW s \in Stamps
        PROVE  /\ InWindow(let[k], s) <= InMemories(k, s) + InWindow(zset[k], s)
               /\ InWindow(let[k], s) <= InMemories(k, s) + Limit[k]
    <3>1. InWindow(let[k], s) = 0 /\ InWindow(zset[k], s) = 0
      BY <1>1, NothingCounted
    <3>2. InMemories(k, s) \in Nat
      BY <1>2, InMemoriesNat
    <3>3. Limit[k] \in Nat
      BY RateAssumption
    <3> QED BY <3>1, <3>2, <3>3
  <2> QED BY <2>1 DEF RateWindow
<1> QED BY <1>1, <1>2, <1>3, <1>4, <1>5, <1>6 DEF RateInv, RefusedAboveLimit

(* A request is counted among those asked. *)
LEMMA AskedMore ==
    ASSUME RateTypeOK, NEW k \in Keys, Ask(k)
    PROVE  /\ asked' \in Counters /\ asked'[k] = [asked[k] EXCEPT ![time] = @ + 1]
           /\ asked'[k][time] = asked[k][time] + 1
           /\ \A j \in Keys, x \in Stamps :
                 asked'[j][x] = asked[j][x] + IF j = k /\ x = time THEN 1 ELSE 0
           /\ \A j \in Keys, s \in Int :
                 After(asked'[j], s) \in Nat /\ After(asked[j], s) <= After(asked'[j], s)
           /\ \A s \in Int : s < time => After(asked'[k], s) = After(asked[k], s) + 1
<1>1. /\ asked \in Counters /\ asked[k] \in [Stamps -> Nat] /\ time \in Stamps
      /\ asked[k] \in [Stamps -> 0..MaxAsked] /\ \A j \in Keys : asked[j] \in [Stamps -> Nat]
  BY RateAssumption DEF RateTypeOK, Counters
<1>2. asked' = [asked EXCEPT ![k] = [asked[k] EXCEPT ![time] = @ + 1]]
  BY <1>1 DEF Ask, Counters
<1>3. PICK g : g = [asked[k] EXCEPT ![time] = @ + 1]
  OBVIOUS
<1>4. asked'[k] = g /\ \A j \in Keys \ {k} : asked'[j] = asked[j]
  BY <1>1, <1>2, <1>3 DEF Counters
<1>5. g \in [Stamps -> Nat] /\ g[time] = asked[k][time] + 1 /\ \A x \in Stamps \ {time} : g[x] = asked[k][x]
  BY <1>1, <1>3, OneMoreAt
<1>6. asked[k][time] < MaxAsked
  <2>1. SumFunctionOnSet(asked[k], Stamps) < MaxAsked
    BY <1>1, WindowSums DEF Ask
  <2>2. asked[k][time] <= SumFunctionOnSet(asked[k], Stamps)
    BY <1>1, StampSets, SumBounds
  <2>3. SumFunctionOnSet(asked[k], Stamps) \in Nat /\ asked[k][time] \in Nat
    BY <1>1, StampSets, SumNat
  <2> QED BY <2>1, <2>2, <2>3, RateAssumption
<1>7. g \in [Stamps -> 0..MaxAsked]
  <2>1. \A x \in Stamps : g[x] \in 0..MaxAsked
    BY <1>1, <1>5, <1>6, RateAssumption
  <2> QED BY <1>5, <2>1
<1>8. asked' \in Counters
  BY <1>1, <1>2, <1>3, <1>7 DEF Counters
<1>9. ASSUME NEW s \in Int
      PROVE  /\ After(asked[k], s) <= After(g, s)
             /\ s < time => After(g, s) = After(asked[k], s) + 1
  <2>1. PICK S \in SUBSET Stamps : S = {x \in Stamps : x > s}
    BY StampSets
  <2>2. After(asked[k], s) = SumFunctionOnSet(asked[k], S) /\ After(g, s) = SumFunctionOnSet(g, S)
    BY <2>1 DEF After
  <2>3. After(asked[k], s) \in Nat
    BY <1>1, WindowSums
  <2>4. /\ time \in S => SumFunctionOnSet(g, S) = SumFunctionOnSet(asked[k], S) + 1
        /\ time \notin S => SumFunctionOnSet(g, S) = SumFunctionOnSet(asked[k], S)
    BY <1>1, <1>5, OneMore
  <2>5. s < time => time \in S
    BY <1>1, <2>1, StampSets
  <2> QED BY <2>2, <2>3, <2>4, <2>5
<1>10. \A j \in Keys, s \in Int : After(asked[j], s) \in Nat
  BY <1>1, WindowSums
<1>11. \A j \in Keys, s \in Int : After(asked[j], s) <= After(asked'[j], s)
  BY <1>4, <1>9, <1>10
<1>12. \A j \in Keys, s \in Int : After(asked'[j], s) \in Nat
  <2>1. \A j \in Keys : asked'[j] \in [Stamps -> Nat]
    BY <1>1, <1>4, <1>5
  <2> QED BY <2>1, WindowSums
<1>13. ASSUME NEW j \in Keys, NEW x \in Stamps
       PROVE  asked'[j][x] = asked[j][x] + IF j = k /\ x = time THEN 1 ELSE 0
  <2>1. asked[j][x] \in Nat
    BY <1>1
  <2>2. CASE j # k
    BY <1>4, <2>1, <2>2
  <2>3. CASE j = k /\ x # time
    BY <1>4, <1>5, <2>1, <2>3
  <2>4. CASE j = k /\ x = time
    BY <1>4, <1>5, <2>4
  <2> QED BY <2>2, <2>3, <2>4
<1> QED BY <1>3, <1>4, <1>5, <1>8, <1>9, <1>11, <1>12, <1>13

LEMMA RefusalsStand ==
    ASSUME RateTypeOK, RefusedAboveLimit, NEW D \in SUBSET (Keys \X Stamps),
           \A j \in Keys, s \in Int : After(asked'[j], s) \in Nat /\ After(asked[j], s) <= After(asked'[j], s),
           denied' = denied \cup D, \A d \in D : After(asked'[d[1]], d[2] - WINDOW) > Limit[d[1]]
    PROVE  RefusedAboveLimit'
<1>1. ASSUME NEW d \in denied PROVE After(asked'[d[1]], d[2] - WINDOW) > Limit[d[1]]
  <2>1. d[1] \in Keys /\ d[2] \in Stamps /\ d[2] - WINDOW \in Int /\ Limit[d[1]] \in Nat
    <3>1. d \in Keys \X Stamps
      BY DEF RateTypeOK
    <3>2. PICK j \in Keys, b \in Stamps : d = <<j, b>>
      BY <3>1
    <3>3. b \in Int /\ WINDOW \in Int /\ Limit[j] \in Nat
      BY <3>2, RateAssumption, StampSets
    <3> QED BY <3>2, <3>3
  <2>2. asked[d[1]] \in [Stamps -> Nat]
    BY <2>1, RateAssumption DEF RateTypeOK, Counters
  <2>3. After(asked[d[1]], d[2] - WINDOW) \in Nat /\ After(asked[d[1]], d[2] - WINDOW) > Limit[d[1]]
    BY <2>1, <2>2, WindowSums DEF RefusedAboveLimit
  <2>4. /\ After(asked[d[1]], d[2] - WINDOW) <= After(asked'[d[1]], d[2] - WINDOW)
        /\ After(asked'[d[1]], d[2] - WINDOW) \in Nat
    BY <2>1
  <2> QED BY <2>1, <2>3, <2>4
<1> QED BY <1>1 DEF RefusedAboveLimit

(* A process that is free takes a request, and ends one. *)
LEMMA PendingGrows ==
    ASSUME RateTypeOK, NEW p \in Workers, NEW k \in Keys, freq[p].pc = "idle",
           freq' = [freq EXCEPT ![p] = [pc |-> "pipeline", key |-> k, at |-> time]]
    PROVE  /\ freq' \in [Workers -> CheckRequest]
           /\ \A j \in Keys, x \in Stamps :
                 Cardinality(Pending(j, x)') = Cardinality(Pending(j, x)) + IF j = k /\ x = time THEN 1 ELSE 0
           /\ \A j \in Keys, s \in Stamps : time > s => Late(j, s)' = Late(j, s)
<1>1. PICK q \in CheckRequest : q = [pc |-> "pipeline", key |-> k, at |-> time]
  BY DEF RateTypeOK, CheckRequest
<1>2. freq' \in [Workers -> CheckRequest] /\ freq'[p] = q /\ \A w \in Workers \ {p} : freq'[w] = freq[w]
  BY <1>1 DEF RateTypeOK
<1>3. q.pc = "pipeline" /\ q.key = k /\ q.at = time
  BY <1>1
<1>4. ASSUME NEW j \in Keys, NEW x \in Stamps
      PROVE  Cardinality(Pending(j, x)') = Cardinality(Pending(j, x)) + IF j = k /\ x = time THEN 1 ELSE 0
  <2>1. p \notin Pending(j, x)
    BY DEF Pending
  <2>2. CASE j = k /\ x = time
    <3>1. Pending(j, x)' = Pending(j, x) \cup {p}
      BY <1>2, <1>3, <2>2 DEF Pending
    <3> QED BY <2>1, <2>2, <3>1, CountsOfPending, FS_AddElement
  <2>3. CASE ~(j = k /\ x = time)
    <3>1. Pending(j, x)' = Pending(j, x)
      BY <1>2, <1>3, <2>1, <2>3 DEF Pending
    <3> QED BY <2>3, <3>1, CountsOfPending
  <2> QED BY <2>2, <2>3
<1>5. ASSUME NEW j \in Keys, NEW s \in Stamps, time > s PROVE Late(j, s)' = Late(j, s)
  <2>1. ~(time <= s)
    BY <1>5, StampSets DEF RateTypeOK
  <2> QED BY <1>2, <1>3, <2>1 DEF Late
<1> QED BY <1>2, <1>4, <1>5

LEMMA PendingShrinks ==
    ASSUME RateTypeOK, NEW p \in Workers, freq[p].pc = "pipeline", freq' = [freq EXCEPT ![p] = FIdle]
    PROVE  /\ freq' \in [Workers -> CheckRequest] /\ freq'[p] = FIdle
           /\ \A w \in Workers \ {p} : freq'[w] = freq[w]
           /\ \A j \in Keys, x \in Stamps :
                 Cardinality(Pending(j, x)') + (IF j = freq[p].key /\ x = freq[p].at THEN 1 ELSE 0)
                    = Cardinality(Pending(j, x))
           /\ \A j \in Keys, s \in Stamps :
                 /\ Late(j, s)' = Late(j, s) \ {p}
                 /\ Cardinality(Late(j, s)') + (IF j = freq[p].key /\ freq[p].at <= s THEN 1 ELSE 0)
                       = Cardinality(Late(j, s))
<1>1. /\ freq' \in [Workers -> CheckRequest] /\ freq'[p] = FIdle
      /\ \A w \in Workers \ {p} : freq'[w] = freq[w]
  BY FIdleType DEF RateTypeOK
<1>2. freq'[p].pc # "pipeline"
  BY <1>1 DEF FIdle
<1>3. ASSUME NEW j \in Keys, NEW x \in Stamps
      PROVE  Cardinality(Pending(j, x)') + (IF j = freq[p].key /\ x = freq[p].at THEN 1 ELSE 0)
                = Cardinality(Pending(j, x))
  <2>1. Pending(j, x)' = Pending(j, x) \ {p}
    BY <1>1, <1>2 DEF Pending
  <2>2. CASE j = freq[p].key /\ x = freq[p].at
    <3>1. p \in Pending(j, x)
      BY <2>2 DEF Pending
    <3>2. IsFiniteSet(Pending(j, x))
      BY CountsOfPending
    <3>3. Cardinality(Pending(j, x)') = Cardinality(Pending(j, x)) - 1
      BY <2>1, <3>1, <3>2, FS_RemoveElement
    <3> QED BY <2>2, <3>3, CountsOfPending
  <2>3. CASE ~(j = freq[p].key /\ x = freq[p].at)
    <3>1. Pending(j, x)' = Pending(j, x)
      BY <2>1, <2>3 DEF Pending
    <3> QED BY <2>3, <3>1, CountsOfPending
  <2> QED BY <2>2, <2>3
<1>4. ASSUME NEW j \in Keys, NEW s \in Stamps
      PROVE  /\ Late(j, s)' = Late(j, s) \ {p}
             /\ Cardinality(Late(j, s)') + (IF j = freq[p].key /\ freq[p].at <= s THEN 1 ELSE 0)
                   = Cardinality(Late(j, s))
  <2>1. Late(j, s)' = Late(j, s) \ {p}
    BY <1>1, <1>2 DEF Late
  <2>2. CASE j = freq[p].key /\ freq[p].at <= s
    <3>1. p \in Late(j, s)
      BY <2>2 DEF Late
    <3>2. IsFiniteSet(Late(j, s))
      BY CountsOfPending
    <3>3. Cardinality(Late(j, s)') = Cardinality(Late(j, s)) - 1
      BY <2>1, <3>1, <3>2, FS_RemoveElement
    <3> QED BY <2>1, <2>2, <3>3, CountsOfPending
  <2>3. CASE ~(j = freq[p].key /\ freq[p].at <= s)
    <3>1. Late(j, s)' = Late(j, s)
      BY <2>1, <2>3 DEF Late
    <3> QED BY <2>1, <2>3, <3>1, CountsOfPending
  <2> QED BY <2>2, <2>3
<1> QED BY <1>1, <1>3, <1>4

LEMMA RateNumbers ==
    ASSUME RateTypeOK, NEW k \in Keys
    PROVE  /\ Limit[k] \in Nat /\ Limit[k] # 0
           /\ zset[k] \in [Stamps -> Nat] /\ asked[k] \in [Stamps -> Nat] /\ let[k] \in [Stamps -> Nat]
           /\ \A p \in Workers : memory[p][k] \in [Stamps -> Nat]
           /\ \A s \in Stamps : /\ InWindow(let[k], s) \in Nat /\ InWindow(zset[k], s) \in Nat
                                /\ InMemories(k, s) \in Nat
           /\ \A x \in Stamps : zset[k][x] \in Nat /\ asked[k][x] \in Nat /\ let[k][x] \in Nat
           /\ \A s \in Int : After(asked[k], s) \in Nat
           /\ time \in Stamps /\ time \in Int
<1>1. /\ zset[k] \in [Stamps -> Nat] /\ asked[k] \in [Stamps -> Nat] /\ let[k] \in [Stamps -> Nat]
      /\ time \in Stamps /\ time \in Int
  BY RateAssumption, StampSets DEF RateTypeOK, Counters
<1>2. \A p \in Workers : memory[p][k] \in [Stamps -> Nat]
  BY RateAssumption DEF RateTypeOK, Counters
<1>3. \A x \in Stamps : zset[k][x] \in Nat /\ asked[k][x] \in Nat /\ let[k][x] \in Nat
  BY <1>1
<1>4. \A s \in Stamps : /\ InWindow(let[k], s) \in Nat /\ InWindow(zset[k], s) \in Nat
                        /\ InMemories(k, s) \in Nat
  BY <1>1, WindowSums, InMemoriesNat
<1>5. \A s \in Int : After(asked[k], s) \in Nat
  BY <1>1, WindowSums
<1>6. Limit[k] \in Nat /\ Limit[k] # 0
  BY RateAssumption
<1> QED BY <1>1, <1>2, <1>3, <1>4, <1>5, <1>6

LEMMA CountsLater ==
    ASSUME NEW k \in Keys, NEW s \in Stamps
    PROVE  Cardinality(Pending(k, s)') \in Nat /\ Cardinality(Late(k, s)') \in Nat
<1>1. Pending(k, s)' \subseteq Workers /\ Late(k, s)' \subseteq Workers
  BY DEF Pending, Late
<1> QED BY <1>1, RateAssumption, FS_Subset, FS_CardinalityType

LEMMA InMemoriesLater ==
    ASSUME RateTypeOK', NEW k \in Keys, NEW s \in Stamps PROVE InMemories(k, s)' \in Nat
<1> DEFINE f == [p \in Workers |-> IF s >= time' THEN InWindow(memory'[p][k], s) ELSE Limit[k]]
<1>1. \A p \in Workers : InWindow(memory'[p][k], s) \in Nat
  <2>1. ASSUME NEW p \in Workers PROVE memory'[p][k] \in [Stamps -> Nat]
    BY DEF RateTypeOK, Counters
  <2> QED BY <2>1, WindowSums
<1>2. \A p \in Workers \ shares' : f[p] \in Nat
  BY <1>1, RateAssumption
<1> HIDE DEF f
<1>3. IsFiniteSet(Workers \ shares')
  BY RateAssumption, FS_Subset
<1>4. SumFunctionOnSet(f, Workers \ shares') \in Nat
  BY <1>2, <1>3, SumNat
<1> QED BY <1>4 DEF InMemories, f

LEMMA RateStampStep ==
    ASSUME RateInv, NEW p \in Workers, NEW k \in Keys, Stamp(p, k) PROVE RateInv'
<1>1. /\ RateTypeOK /\ freq[p].pc = "idle" /\ p \in shares /\ Ask(k)
      /\ freq' = [freq EXCEPT ![p] = [pc |-> "pipeline", key |-> k, at |-> time]]
      /\ UNCHANGED <<shares, redisUp, zset, memory, time, let, denied>>
  <2>1. freq[p].pc \in {"idle", "pipeline"}
    BY DEF RateInv, RateTypeOK, CheckRequest
  <2> QED BY <2>1 DEF RateInv, Stamp, Busy
<1>2. RateTypeOK'
  BY <1>1, AskedMore, PendingGrows DEF RateTypeOK
<1>3. RateStamped'
  <2>1. time <= time
    BY <1>1, RateNumbers
  <2> QED BY <1>1, <2>1 DEF RateInv, RateTypeOK, RateStamped
<1>4. ASSUME NEW j \in Keys, NEW x \in Stamps
      PROVE  /\ zset'[j][x] + Cardinality(Pending(j, x)') <= asked'[j][x]
             /\ let'[j][x] + Cardinality(Pending(j, x)') <= asked'[j][x]
             /\ \A w \in Workers : memory'[w][j][x] <= asked'[j][x]
  <2>1. PICK n \in Nat : n = Cardinality(Pending(j, x))
    BY CountsOfPending
  <2>2. Cardinality(Pending(j, x)') = n + IF j = k /\ x = time THEN 1 ELSE 0
    BY <1>1, <2>1, PendingGrows
  <2>3. asked'[j][x] = asked[j][x] + IF j = k /\ x = time THEN 1 ELSE 0
    BY <1>1, AskedMore
  <2>4. /\ zset[j][x] + n <= asked[j][x] /\ let[j][x] + n <= asked[j][x]
        /\ \A w \in Workers : memory[w][j][x] <= asked[j][x]
    BY <2>1 DEF RateInv, RateCounted
  <2>5. /\ zset[j][x] \in Nat /\ let[j][x] \in Nat /\ asked[j][x] \in Nat
        /\ \A w \in Workers : memory[w][j][x] \in Nat
    BY <1>1, RateNumbers
  <2>6. zset' = zset /\ let' = let /\ memory' = memory
    BY <1>1
  <2> QED BY <2>2, <2>3, <2>4, <2>5, <2>6
<1>5. RateCounted'
  BY <1>4 DEF RateCounted
<1>6. RateMemory'
  BY <1>1 DEF RateInv, RateMemory
<1>7. RateWindow'
  <2>1. \A j \in Keys, s \in Stamps : /\ InMemories(j, s)' = InMemories(j, s)
                                      /\ time > s => Late(j, s)' = Late(j, s)
    BY <1>1, PendingGrows DEF InMemories
  <2> QED BY <1>1, <2>1 DEF RateInv, RateWindow
<1>8. RefusedAboveLimit'
  <2>1. \A j \in Keys, s \in Int : After(asked'[j], s) \in Nat /\ After(asked[j], s) <= After(asked'[j], s)
    BY <1>1, AskedMore
  <2>2. PICK D : D = {}
    OBVIOUS
  <2>4. D \in SUBSET (Keys \X Stamps) /\ denied' = denied \cup D
    BY <1>1, <2>2
  <2>3. \A d \in D : After(asked'[d[1]], d[2] - WINDOW) > Limit[d[1]]
    BY <2>2
  <2> QED BY <1>1, <2>1, <2>3, <2>4, RefusalsStand DEF RateInv
<1> QED BY <1>1, <1>2, <1>3, <1>5, <1>6, <1>7, <1>8 DEF RateInv

LEMMA FallBackStep ==
    ASSUME RateInv, NEW p \in Workers, FallBack(p) PROVE RateInv'
<1>1. /\ RateTypeOK /\ freq[p].pc = "pipeline" /\ freq' = [freq EXCEPT ![p] = FIdle]
      /\ UNCHANGED <<shares, redisUp, zset, memory, time, asked, let, denied>>
  BY DEF RateInv, FallBack
<1>2. /\ freq' \in [Workers -> CheckRequest] /\ freq'[p] = FIdle
      /\ \A w \in Workers \ {p} : freq'[w] = freq[w]
  BY <1>1, PendingShrinks
<1>3. RateTypeOK'
  BY <1>1, <1>2 DEF RateTypeOK
<1>4. RateStamped'
  BY <1>1, <1>2 DEF RateInv, RateStamped, FIdle
<1>5. ASSUME NEW j \in Keys, NEW x \in Stamps
      PROVE  /\ zset[j][x] + Cardinality(Pending(j, x)') <= asked[j][x]
             /\ let[j][x] + Cardinality(Pending(j, x)') <= asked[j][x]
  <2>1. PICK n \in Nat : n = Cardinality(Pending(j, x))
    BY CountsOfPending
  <2>2. PICK m \in {0, 1} : Cardinality(Pending(j, x)') + m = n
    BY <1>1, <2>1, PendingShrinks
  <2>3. Cardinality(Pending(j, x)') \in Nat
    BY CountsLater
  <2>4. zset[j][x] + n <= asked[j][x] /\ let[j][x] + n <= asked[j][x]
    BY <2>1 DEF RateInv, RateCounted
  <2>5. zset[j][x] \in Nat /\ let[j][x] \in Nat /\ asked[j][x] \in Nat
    BY <1>1, RateNumbers
  <2> QED BY <2>2, <2>3, <2>4, <2>5
<1>6. RateCounted'
  BY <1>1, <1>5 DEF RateInv, RateCounted
<1>7. RateWindow'
  <2>1. ASSUME NEW j \in Keys, NEW s \in Stamps
        PROVE  /\ InMemories(j, s)' = InMemories(j, s)
               /\ Cardinality(Late(j, s)') <= Cardinality(Late(j, s)) /\ Cardinality(Late(j, s)') \in Nat
    <3>1. PICK m \in {0, 1} : Cardinality(Late(j, s)') + m = Cardinality(Late(j, s))
      BY <1>1, PendingShrinks
    <3>2. Cardinality(Late(j, s)') \in Nat
      BY CountsLater
    <3> QED BY <1>1, <3>1, <3>2 DEF InMemories
  <2>2. Cardinality(shares) \in Nat
    BY RateAssumption, FS_Subset, FS_CardinalityType DEF RateInv, RateTypeOK
  <2>3. ASSUME NEW j \in Keys, NEW s \in Stamps, shares # {}, time > s,
               InWindow(let[j], s) + Cardinality(Late(j, s)) <= InMemories(j, s) + Limit[j] + Cardinality(shares) - 1
        PROVE  InWindow(let[j], s) + Cardinality(Late(j, s)')
                  <= InMemories(j, s) + Limit[j] + Cardinality(shares) - 1
    <3>1. InWindow(let[j], s) \in Nat /\ InMemories(j, s) \in Nat /\ Limit[j] \in Nat
      BY <1>1, RateNumbers
    <3>2. Cardinality(Late(j, s)) \in Nat
      BY CountsOfPending
    <3> QED BY <2>1, <2>2, <2>3, <3>1, <3>2
  <2> QED BY <1>1, <2>1, <2>3 DEF RateInv, RateWindow
<1>8. RateMemory' /\ RefusedAboveLimit' /\ (shares' = {} => zset' = NoStamps)
  BY <1>1 DEF RateInv, RateMemory, RefusedAboveLimit
<1> QED BY <1>3, <1>4, <1>6, <1>7, <1>8 DEF RateInv

LEMMA InstantStep == ASSUME RateInv, Instant PROVE RateInv'
<1>1. /\ RateTypeOK /\ time' = time + 1 /\ time < MaxInstants
      /\ UNCHANGED <<shares, redisUp, zset, memory, asked, let, denied, freq>>
  BY DEF RateInv, Instant
<1>2. time \in Nat /\ time' \in Stamps /\ time <= time'
  BY <1>1, RateAssumption DEF RateTypeOK, Stamps
<1>3. RateTypeOK'
  BY <1>1, <1>2 DEF RateTypeOK
<1>4. RateStamped'
  <2>1. \A p \in Workers : freq[p].at \in Int
    BY <1>1, StampSets DEF RateTypeOK, CheckRequest
  <2> QED BY <1>1, <1>2, <2>1 DEF RateInv, RateStamped
<1>5. RateCounted' /\ RateMemory' /\ RefusedAboveLimit' /\ (shares' = {} => zset' = NoStamps)
  BY <1>1 DEF RateInv, RateCounted, RateMemory, RefusedAboveLimit, Pending
<1>6. ASSUME NEW j \in Keys, NEW s \in Stamps PROVE InMemories(j, s) <= InMemories(j, s)'
  <2> DEFINE f == [p \in Workers |-> IF s >= time THEN InWindow(memory[p][j], s) ELSE Limit[j]]
             g == [p \in Workers |-> IF s >= time' THEN InWindow(memory[p][j], s) ELSE Limit[j]]
  <2>1. s \in Int /\ Limit[j] \in Nat
    BY StampSets, RateAssumption
  <2>2. ASSUME NEW p \in Workers PROVE f[p] \in Int /\ g[p] \in Int /\ f[p] <= g[p]
    <3>1. memory[p][j] \in [Stamps -> Nat]
      BY <1>1, RateNumbers
    <3>2. InWindow(memory[p][j], s) \in Nat /\ InWindow(memory[p][j], s) <= After(memory[p][j], -1)
      BY <3>1, WindowSums
    <3>3. After(memory[p][j], -1) \in Nat /\ After(memory[p][j], -1) <= Limit[j]
      BY <3>1, WindowSums DEF RateInv, RateMemory
    <3>4. InWindow(memory[p][j], s) <= Limit[j]
      BY <2>1, <3>2, <3>3
    <3>5. s >= time' => s >= time
      BY <1>2, <2>1, <1>1
    <3> QED BY <2>1, <3>2, <3>4, <3>5
  <2>3. InMemories(j, s) = SumFunctionOnSet(f, Workers \ shares)
        /\ InMemories(j, s)' = SumFunctionOnSet(g, Workers \ shares)
    BY <1>1 DEF InMemories
  <2> HIDE DEF f, g
  <2>4. IsFiniteSet(Workers \ shares) /\ \A p \in Workers \ shares : f[p] \in Int /\ g[p] \in Int /\ f[p] <= g[p]
    BY <2>2, RateAssumption, FS_Subset
  <2>5. SumFunctionOnSet(f, Workers \ shares) <= SumFunctionOnSet(g, Workers \ shares)
    BY <2>4, SumMonotone
  <2> QED BY <2>3, <2>5
<1>7. RateWindow'
  <2>1. ASSUME NEW j \in Keys, NEW s \in Stamps
        PROVE  /\ InMemories(j, s) \in Nat /\ InMemories(j, s)' \in Nat /\ Limit[j] \in Nat
               /\ InWindow(let[j], s) \in Nat /\ InWindow(zset[j], s) \in Nat
               /\ Late(j, s)' = Late(j, s) /\ Cardinality(Late(j, s)) \in Nat
               /\ time > s => time' > s
    <3>1. InMemories(j, s)' \in Nat
      BY <1>3, InMemoriesLater
    <3>2. time > s => time' > s
      BY <1>1, <1>2, StampSets
    <3>3. Late(j, s)' = Late(j, s)
      BY <1>1 DEF Late
    <3> QED BY <1>1, <3>1, <3>2, <3>3, RateNumbers, CountsOfPending
  <2>2. Cardinality(shares) \in Nat
    BY <1>1, RateAssumption, FS_Subset, FS_CardinalityType DEF RateTypeOK
  <2>3. ASSUME NEW j \in Keys, NEW s \in Stamps
        PROVE  \/ /\ InWindow(let[j], s) <= InMemories(j, s)' + InWindow(zset[j], s)
                  /\ InWindow(let[j], s) <= InMemories(j, s)' + Limit[j]
               \/ /\ shares # {} /\ time' > s
                  /\ InWindow(let[j], s) + Cardinality(Late(j, s))
                        <= InMemories(j, s)' + Limit[j] + Cardinality(shares) - 1
    <3>1. CASE /\ InWindow(let[j], s) <= InMemories(j, s) + InWindow(zset[j], s)
               /\ InWindow(let[j], s) <= InMemories(j, s) + Limit[j]
      BY <1>6, <2>1, <3>1
    <3>2. CASE /\ shares # {} /\ time > s
               /\ InWindow(let[j], s) + Cardinality(Late(j, s))
                     <= InMemories(j, s) + Limit[j] + Cardinality(shares) - 1
      BY <1>6, <2>1, <2>2, <3>2
    <3> QED BY <3>1, <3>2 DEF RateInv, RateWindow
  <2> QED BY <1>1, <2>1, <2>3 DEF RateWindow
<1> QED BY <1>3, <1>4, <1>5, <1>7 DEF RateInv

LEMMA AfterMonotone ==
    ASSUME NEW f \in [Stamps -> Nat], NEW g \in [Stamps -> Nat], \A x \in Stamps : f[x] <= g[x], NEW b \in Int
    PROVE  After(f, b) <= After(g, b)
<1>1. PICK S \in SUBSET Stamps : S = {x \in Stamps : x > b} /\ IsFiniteSet(S)
  BY StampSets
<1>2. \A x \in S : f[x] \in Int /\ g[x] \in Int /\ f[x] <= g[x]
  OBVIOUS
<1>3. SumFunctionOnSet(f, S) <= SumFunctionOnSet(g, S)
  BY <1>1, <1>2, SumMonotone
<1> QED BY <1>1, <1>3 DEF After

LEMMA OneMoreInWindow ==
    ASSUME NEW f \in [Stamps -> Nat], NEW a \in Stamps, NEW g \in [Stamps -> Nat],
           g[a] = f[a] + 1, \A x \in Stamps \ {a} : g[x] = f[x]
    PROVE  /\ \A x \in Stamps : g[x] = f[x] + IF x = a THEN 1 ELSE 0
           /\ \A s \in Stamps : InWindow(g, s) = InWindow(f, s) + IF a \in Window(s) THEN 1 ELSE 0
           /\ After(g, -1) = After(f, -1) + 1
           /\ \A b \in Int : b < a => After(g, b) = After(f, b) + 1
<1>2. \A x \in Stamps : g[x] = f[x] + IF x = a THEN 1 ELSE 0
  OBVIOUS
<1>3. ASSUME NEW s \in Stamps
      PROVE  InWindow(g, s) = InWindow(f, s) + IF a \in Window(s) THEN 1 ELSE 0
  <2>1. PICK S \in SUBSET Stamps : S = Window(s)
    BY StampSets
  <2>2. InWindow(f, s) = SumFunctionOnSet(f, S) /\ InWindow(g, s) = SumFunctionOnSet(g, S)
    BY <2>1, WindowSums
  <2>3. InWindow(f, s) \in Nat
    BY WindowSums
  <2>4. /\ a \in S => SumFunctionOnSet(g, S) = SumFunctionOnSet(f, S) + 1
        /\ a \notin S => SumFunctionOnSet(g, S) = SumFunctionOnSet(f, S)
    BY OneMore
  <2> QED BY <2>1, <2>2, <2>3, <2>4
<1>4. After(g, -1) = After(f, -1) + 1
  <2>1. PICK S \in SUBSET Stamps : S = Stamps
    OBVIOUS
  <2>2. SumFunctionOnSet(g, S) = SumFunctionOnSet(f, S) + 1
    BY <2>1, OneMore
  <2> QED BY <2>1, <2>2, WindowSums
<1>5. ASSUME NEW b \in Int, b < a PROVE After(g, b) = After(f, b) + 1
  <2>1. PICK S \in SUBSET Stamps : S = {x \in Stamps : x > b}
    BY StampSets
  <2>2. a \in S
    BY <1>5, <2>1, StampSets
  <2>3. SumFunctionOnSet(g, S) = SumFunctionOnSet(f, S) + 1
    BY <2>2, OneMore
  <2> QED BY <2>1, <2>3 DEF After
<1> QED BY <1>2, <1>3, <1>4, <1>5

(* One counter of a table of counters is replaced. *)
LEMMA CounterSet ==
    ASSUME NEW t \in Counters, NEW k \in Keys, NEW g \in [Stamps -> 0..MaxAsked]
    PROVE  /\ [t EXCEPT ![k] = g] \in Counters /\ [t EXCEPT ![k] = g][k] = g
           /\ \A j \in Keys \ {k} : [t EXCEPT ![k] = g][j] = t[j]
BY DEF Counters

LEMMA CounterOf ==
    ASSUME NEW g \in [Stamps -> Nat], \A x \in Stamps : g[x] <= MaxAsked
    PROVE  g \in [Stamps -> 0..MaxAsked]
<1>1. \A x \in Stamps : g[x] \in 0..MaxAsked
  BY RateAssumption
<1> QED BY <1>1

(* Requests let through and refused. *)
LEMMA Tallied ==
    ASSUME RateTypeOK, NEW k \in Keys, NEW s \in Stamps, NEW allowed \in BOOLEAN, Tally(k, s, allowed),
           let[k][s] < MaxAsked
    PROVE  /\ let' \in Counters /\ \A j \in Keys \ {k} : let'[j] = let[j]
           /\ \A x \in Stamps : let'[k][x] = let[k][x] + IF allowed /\ x = s THEN 1 ELSE 0
           /\ \A x \in Stamps :
                 InWindow(let'[k], x) = InWindow(let[k], x) + IF allowed /\ s \in Window(x) THEN 1 ELSE 0
           /\ denied' = denied \cup (IF allowed THEN {} ELSE {<<k, s>>})
           /\ denied' \subseteq Keys \X Stamps
<1>1. /\ let \in Counters /\ let[k] \in [Stamps -> Nat] /\ \A x \in Stamps : let[k][x] \in 0..MaxAsked
      /\ \A x \in Stamps : InWindow(let[k], x) \in Nat
  BY RateNumbers DEF RateTypeOK, Counters
<1>2. /\ denied' = denied \cup (IF allowed THEN {} ELSE {<<k, s>>})
      /\ denied' \subseteq Keys \X Stamps
  BY DEF Tally, RateTypeOK
<1>3. CASE ~allowed
  <2>1. let' = let
    BY <1>3 DEF Tally
  <2> QED BY <1>1, <1>2, <1>3, <2>1
<1>4. CASE allowed
  <2>1. PICK g : g = [let[k] EXCEPT ![s] = @ + 1]
    OBVIOUS
  <2>2. let' = [let EXCEPT ![k] = g]
    BY <1>1, <1>4, <2>1 DEF Tally, Counters
  <2>3. /\ g \in [Stamps -> Nat] /\ \A x \in Stamps : g[x] = let[k][x] + IF x = s THEN 1 ELSE 0
        /\ \A x \in Stamps : InWindow(g, x) = InWindow(let[k], x) + IF s \in Window(x) THEN 1 ELSE 0
    <3>1. g \in [Stamps -> Nat] /\ g[s] = let[k][s] + 1 /\ \A x \in Stamps \ {s} : g[x] = let[k][x]
      BY <1>1, <2>1, OneMoreAt
    <3> QED BY <1>1, <3>1, OneMoreInWindow
  <2>4. \A x \in Stamps : g[x] <= MaxAsked
    BY <1>1, <2>3, RateAssumption
  <2>5. g \in [Stamps -> 0..MaxAsked]
    BY <2>3, <2>4, CounterOf
  <2>6. let' \in Counters /\ let'[k] = g /\ \A j \in Keys \ {k} : let'[j] = let[j]
    <3>1. PICK t \in Counters : t = let
      BY <1>1
    <3>2. let' = [t EXCEPT ![k] = g]
      BY <2>2, <3>1
    <3>3. /\ [t EXCEPT ![k] = g] \in Counters /\ [t EXCEPT ![k] = g][k] = g
          /\ \A j \in Keys \ {k} : [t EXCEPT ![k] = g][j] = t[j]
      BY <2>5, CounterSet
    <3> QED BY <3>1, <3>2, <3>3
  <2> QED BY <1>2, <1>4, <2>3, <2>6
<1> QED BY <1>3, <1>4

LEMMA CheckMemoryStep ==
    ASSUME RateInv, NEW p \in Workers, NEW k \in Keys, CheckMemory(p, k) PROVE RateInv'
<1> DEFINE m == memory[p][k]
           b == time - WINDOW
           w == Cleaned(memory[p][k], b)
           allowed == After(w, -1) < Limit[k]
<1>1. /\ RateTypeOK /\ p \notin shares /\ Ask(k) /\ Tally(k, time, allowed)
      /\ memory' = [memory EXCEPT ![p][k] = IF allowed THEN [w EXCEPT ![time] = @ + 1] ELSE w]
      /\ UNCHANGED <<shares, redisUp, zset, time, freq>>
  BY DEF RateInv, CheckMemory, Cleaned
<1>2. /\ m \in [Stamps -> Nat] /\ time \in Stamps /\ time \in Int /\ b \in Int /\ b < time /\ Limit[k] \in Nat
      /\ WINDOW \in Nat
  BY <1>1, RateNumbers, RateAssumption
<1>3. /\ w \in [Stamps -> Nat] /\ (\A x \in Stamps : w[x] <= m[x]) /\ After(w, -1) = After(m, b)
      /\ \A s \in Stamps : b <= s - WINDOW => InWindow(w, s) = InWindow(m, s)
  BY <1>2, CleanedWindow
<1>4. PICK d \in {0, 1} : d = IF allowed THEN 1 ELSE 0
  OBVIOUS
<1>5. PICK n : n = IF allowed THEN [w EXCEPT ![time] = @ + 1] ELSE w
  OBVIOUS
<1>6. /\ n \in [Stamps -> Nat] /\ \A x \in Stamps : n[x] = w[x] + IF x = time THEN d ELSE 0
      /\ \A s \in Stamps : InWindow(n, s) = InWindow(w, s) + IF time \in Window(s) THEN d ELSE 0
      /\ After(n, -1) = After(w, -1) + d
  <2>1. PICK u : u = w
    OBVIOUS
  <2>2. u \in [Stamps -> Nat] /\ After(u, -1) \in Nat /\ \A s \in Stamps : InWindow(u, s) \in Nat
    BY <1>3, <2>1, WindowSums
  <2>3. CASE allowed
    <3>1. n = [u EXCEPT ![time] = @ + 1] /\ d = 1
      BY <1>4, <1>5, <2>1, <2>3
    <3>2. n \in [Stamps -> Nat] /\ n[time] = u[time] + 1 /\ \A x \in Stamps \ {time} : n[x] = u[x]
      BY <1>2, <2>2, <3>1, OneMoreAt
    <3>3. /\ \A x \in Stamps : n[x] = u[x] + IF x = time THEN 1 ELSE 0
          /\ \A s \in Stamps : InWindow(n, s) = InWindow(u, s) + IF time \in Window(s) THEN 1 ELSE 0
          /\ After(n, -1) = After(u, -1) + 1
      BY <1>2, <2>2, <3>2, OneMoreInWindow
    <3> QED BY <2>1, <3>1, <3>2, <3>3
  <2>4. CASE ~allowed
    <3>1. n = u /\ d = 0
      BY <1>4, <1>5, <2>1, <2>4
    <3>2. \A x \in Stamps : u[x] \in Nat
      BY <2>2
    <3> QED BY <2>1, <2>2, <3>1, <3>2
  <2> QED BY <2>3, <2>4
<1>7. allowed <=> After(m, b) < Limit[k]
  BY <1>3
<1> HIDE DEF w, allowed
<1>8. /\ asked' \in Counters
      /\ \A j \in Keys, x \in Stamps : asked'[j][x] = asked[j][x] + IF j = k /\ x = time THEN 1 ELSE 0
      /\ \A j \in Keys, s \in Int : After(asked'[j], s) \in Nat /\ After(asked[j], s) <= After(asked'[j], s)
      /\ After(asked'[k], b) = After(asked[k], b) + 1
  BY <1>1, <1>2, AskedMore
<1>9. \A j \in Keys, x \in Stamps :
         /\ asked'[j][x] \in Nat /\ asked'[j][x] <= MaxAsked /\ asked[j][x] \in Nat
         /\ zset[j][x] \in Nat /\ let[j][x] \in Nat
  BY <1>1, <1>8, RateNumbers, RateAssumption DEF Counters
<1>10. /\ memory' = [memory EXCEPT ![p][k] = n] /\ p \in Workers \ shares
  BY <1>1, <1>5
<1>11. /\ \A x \in Stamps : n[x] <= asked'[k][x]
       /\ n \in [Stamps -> 0..MaxAsked]
  <2>1. ASSUME NEW x \in Stamps PROVE n[x] <= asked'[k][x] /\ n[x] <= MaxAsked
    <3>1. m[x] <= asked[k][x]
      BY DEF RateInv, RateCounted
    <3>2. m[x] \in Nat /\ w[x] \in Nat /\ w[x] <= m[x]
      BY <1>2, <1>3
    <3>3. n[x] = w[x] + (IF x = time THEN d ELSE 0) /\ asked'[k][x] = asked[k][x] + IF x = time THEN 1 ELSE 0
      BY <1>6, <1>8
    <3>4. n[x] <= asked'[k][x] /\ n[x] \in Nat
      BY <1>4, <1>9, <3>1, <3>2, <3>3
    <3> QED BY <1>9, <3>4, RateAssumption
  <2> QED BY <1>6, <2>1, CounterOf
<1>12. /\ memory' \in [Workers -> Counters] /\ memory'[p][k] = n
       /\ \A q \in Workers, j \in Keys : q # p \/ j # k => memory'[q][j] = memory[q][j]
  <2>1. PICK c \in Counters : c = memory[p]
    BY <1>1 DEF RateTypeOK
  <2>2. PICK u \in Counters : u = [c EXCEPT ![k] = n] /\ u[k] = n /\ \A j \in Keys \ {k} : u[j] = c[j]
    <3>1. n \in [Stamps -> 0..MaxAsked]
      BY <1>11
    <3>2. /\ [c EXCEPT ![k] = n] \in Counters /\ [c EXCEPT ![k] = n][k] = n
          /\ \A j \in Keys \ {k} : [c EXCEPT ![k] = n][j] = c[j]
      BY <3>1, CounterSet
    <3> QED BY <3>2
  <2>3. memory' = [memory EXCEPT ![p] = u]
    BY <1>1, <1>10, <2>1, <2>2 DEF RateTypeOK
  <2>4. memory' \in [Workers -> Counters] /\ memory'[p] = u /\ \A q \in Workers \ {p} : memory'[q] = memory[q]
    BY <1>1, <2>3 DEF RateTypeOK
  <2> QED BY <2>1, <2>2, <2>4
<1>13. let[k][time] < MaxAsked
  <2>1. PICK c \in Nat : c = Cardinality(Pending(k, time)) /\ let[k][time] + c <= asked[k][time]
    BY <1>2, CountsOfPending DEF RateInv, RateCounted
  <2>2. asked[k][time] + 1 <= MaxAsked
    BY <1>2, <1>8, <1>9
  <2> QED BY <1>2, <1>9, <2>1, <2>2, RateAssumption
<1>14. /\ let' \in Counters /\ \A j \in Keys \ {k} : let'[j] = let[j]
       /\ \A x \in Stamps : let'[k][x] = let[k][x] + IF x = time THEN d ELSE 0
       /\ \A s \in Stamps : InWindow(let'[k], s) = InWindow(let[k], s) + IF time \in Window(s) THEN d ELSE 0
       /\ denied' = denied \cup (IF allowed THEN {} ELSE {<<k, time>>})
       /\ denied' \subseteq Keys \X Stamps
  <2>1. allowed \in BOOLEAN
    BY DEF allowed
  <2>2. /\ let' \in Counters /\ \A j \in Keys \ {k} : let'[j] = let[j]
        /\ \A x \in Stamps : let'[k][x] = let[k][x] + IF allowed /\ x = time THEN 1 ELSE 0
        /\ \A x \in Stamps :
              InWindow(let'[k], x) = InWindow(let[k], x) + IF allowed /\ time \in Window(x) THEN 1 ELSE 0
        /\ denied' = denied \cup (IF allowed THEN {} ELSE {<<k, time>>})
        /\ denied' \subseteq Keys \X Stamps
    BY <1>1, <1>2, <1>13, <2>1, Tallied
  <2>3. (allowed => d = 1) /\ (~allowed => d = 0)
    BY <1>4
  <2> QED BY <2>2, <2>3
<1>15. RateTypeOK' /\ RateStamped' /\ (shares' = {} => zset' = NoStamps)
  BY <1>1, <1>8, <1>12, <1>14 DEF RateInv, RateTypeOK, RateStamped

<1>16. RateCounted'
  <2>1. ASSUME NEW j \in Keys, NEW x \in Stamps
        PROVE  /\ zset'[j][x] + Cardinality(Pending(j, x)') <= asked'[j][x]
               /\ let'[j][x] + Cardinality(Pending(j, x)') <= asked'[j][x]
               /\ \A q \in Workers : memory'[q][j][x] <= asked'[j][x]
    <3>1. PICK c \in Nat : c = Cardinality(Pending(j, x)) /\ c = Cardinality(Pending(j, x)')
      BY <1>1, CountsOfPending DEF Pending
    <3>2. /\ zset[j][x] + c <= asked[j][x] /\ let[j][x] + c <= asked[j][x]
          /\ \A q \in Workers : memory[q][j][x] <= asked[j][x]
      BY <3>1 DEF RateInv, RateCounted
    <3>3. asked'[j][x] = asked[j][x] + IF j = k /\ x = time THEN 1 ELSE 0
      BY <1>8
    <3>4. asked[j][x] \in Nat /\ asked'[j][x] \in Nat /\ zset[j][x] \in Nat /\ let[j][x] \in Nat /\ zset' = zset
      BY <1>1, <1>9
    <3>5. let'[j][x] + c <= asked'[j][x]
      <4>1. CASE j = k
        BY <1>4, <1>14, <3>2, <3>3, <3>4, <4>1
      <4>2. CASE j # k
        BY <1>14, <3>2, <3>3, <3>4, <4>2
      <4> QED BY <4>1, <4>2
    <3>6. ASSUME NEW q \in Workers PROVE memory'[q][j][x] <= asked'[j][x]
      <4>1. CASE q = p /\ j = k
        BY <1>11, <1>12, <4>1
      <4>2. CASE q # p \/ j # k
        <5>1. memory[q][j] \in [Stamps -> Nat]
          BY <1>1, RateNumbers
        <5>2. memory[q][j][x] \in Nat /\ memory'[q][j] = memory[q][j]
          BY <1>12, <4>2, <5>1
        <5> QED BY <3>2, <3>3, <3>4, <5>2
      <4> QED BY <4>1, <4>2
    <3> QED BY <3>1, <3>2, <3>3, <3>4, <3>5, <3>6
  <2> QED BY <2>1 DEF RateCounted
<1>17. After(n, -1) <= Limit[k]
  <2>1. After(m, -1) \in Nat /\ After(m, b) \in Nat /\ After(m, b) <= After(m, -1) /\ After(m, -1) <= Limit[k]
    BY <1>2, WindowSums DEF RateInv, RateMemory
  <2>2. After(n, -1) = After(m, b) + d
    BY <1>3, <1>6
  <2>3. CASE allowed
    BY <1>2, <1>4, <1>7, <2>1, <2>2, <2>3
  <2>4. CASE ~allowed
    BY <1>2, <1>4, <2>1, <2>2, <2>4
  <2> QED BY <2>3, <2>4
<1>18. RateMemory'
  BY <1>12, <1>17 DEF RateInv, RateMemory
<1>19. ASSUME NEW s \in Stamps
       PROVE  InMemories(k, s)' = InMemories(k, s) + IF time \in Window(s) THEN d ELSE 0
  <2> DEFINE f == [q \in Workers |-> IF s >= time THEN InWindow(memory[q][k], s) ELSE Limit[k]]
             g == [q \in Workers |-> IF s >= time THEN InWindow(memory'[q][k], s) ELSE Limit[k]]
             W == Workers \ shares
  <2>1. /\ InMemories(k, s) = SumFunctionOnSet(f, W) /\ InMemories(k, s)' = SumFunctionOnSet(g, W)
    BY <1>1 DEF InMemories
  <2>2. /\ IsFiniteSet(W) /\ p \in W /\ W \subseteq Workers /\ s \in Int
    BY <1>10, RateAssumption, FS_Subset, StampSets
  <2>3. \A q \in W : f[q] \in Int /\ g[q] \in Int
    <3>1. ASSUME NEW q \in Workers PROVE InWindow(memory[q][k], s) \in Int /\ InWindow(memory'[q][k], s) \in Int
      <4>1. memory[q][k] \in [Stamps -> Nat] /\ memory'[q][k] \in [Stamps -> Nat]
        BY <1>1, <1>12, RateNumbers, RateAssumption DEF Counters
      <4> QED BY <4>1, WindowSums
    <3> QED BY <1>2, <2>2, <3>1
  <2>4. \A q \in W \ {p} : g[q] = f[q]
    BY <1>12, <2>2
  <2>5. g[p] = f[p] + IF time \in Window(s) THEN d ELSE 0
    <3>1. CASE s >= time
      <4>1. b <= s - WINDOW
        BY <1>2, <2>2, <3>1
      <4>2. InWindow(n, s) = InWindow(m, s) + IF time \in Window(s) THEN d ELSE 0
        BY <1>3, <1>6, <4>1
      <4> QED BY <1>12, <3>1, <4>2
    <3>2. CASE ~(s >= time)
      <4>1. time \notin Window(s)
        BY <1>2, <2>2, <3>2 DEF Window
      <4> QED BY <1>2, <3>2, <4>1
    <3> QED BY <3>1, <3>2
  <2> HIDE DEF f, g, W
  <2>6. SumFunctionOnSet(g, W) = SumFunctionOnSet(f, W) - f[p] + g[p]
    BY <2>2, <2>3, <2>4, SumChange
  <2>7. SumFunctionOnSet(f, W) \in Int /\ f[p] \in Int
    BY <2>2, <2>3, SumInt
  <2> QED BY <1>4, <2>1, <2>5, <2>6, <2>7
<1>20. ASSUME NEW j \in Keys \ {k}, NEW s \in Stamps PROVE InMemories(j, s)' = InMemories(j, s)
  <2>1. \A q \in Workers : memory'[q][j] = memory[q][j]
    BY <1>12
  <2> QED BY <1>1, <2>1 DEF InMemories
<1>21. RateWindow'
  <2>1. ASSUME NEW j \in Keys, NEW s \in Stamps
        PROVE  \E e \in Nat : /\ InWindow(let'[j], s) = InWindow(let[j], s) + e
                              /\ InMemories(j, s)' = InMemories(j, s) + e
    <3>1. InWindow(let[j], s) \in Nat /\ InMemories(j, s) \in Nat
      BY <1>1, RateNumbers
    <3>2. CASE j = k
      <4>1. PICK e \in Nat : e = IF time \in Window(s) THEN d ELSE 0
        BY <1>4
      <4>2. InWindow(let'[j], s) = InWindow(let[j], s) + e
        BY <1>14, <3>2, <4>1
      <4>3. InMemories(j, s)' = InMemories(j, s) + e
        BY <1>19, <3>2, <4>1
      <4> QED BY <4>2, <4>3
    <3>3. CASE j # k
      <4>1. let'[j] = let[j]
        BY <1>14, <3>3
      <4>2. InMemories(j, s)' = InMemories(j, s)
        BY <1>20, <3>3
      <4>3. PICK u, v \in Nat : u = InWindow(let[j], s) /\ v = InMemories(j, s)
        BY <3>1
      <4>4. u = u + 0 /\ v = v + 0 /\ 0 \in Nat
        OBVIOUS
      <4> QED BY <4>1, <4>2, <4>3, <4>4
    <3> QED BY <3>2, <3>3
  <2>2. Cardinality(shares) \in Nat
    BY <1>1, RateAssumption, FS_Subset, FS_CardinalityType DEF RateTypeOK
  <2>3. ASSUME NEW j \in Keys, NEW s \in Stamps
        PROVE  \/ /\ InWindow(let'[j], s) <= InMemories(j, s)' + InWindow(zset[j], s)
                  /\ InWindow(let'[j], s) <= InMemories(j, s)' + Limit[j]
               \/ /\ shares # {} /\ time > s
                  /\ InWindow(let'[j], s) + Cardinality(Late(j, s))
                        <= InMemories(j, s)' + Limit[j] + Cardinality(shares) - 1
    <3>1. PICK e \in Nat : /\ InWindow(let'[j], s) = InWindow(let[j], s) + e
                           /\ InMemories(j, s)' = InMemories(j, s) + e
      BY <2>1
    <3>2. PICK u, v, z, y, t \in Nat : /\ u = InWindow(let[j], s) /\ v = InMemories(j, s) /\ z = InWindow(zset[j], s)
                                       /\ y = Limit[j] /\ t = Cardinality(Late(j, s))
      BY <1>1, RateNumbers, CountsOfPending
    <3>3. CASE u <= v + z /\ u <= v + y
      BY <3>1, <3>2, <3>3
    <3>4. CASE /\ shares # {} /\ time > s /\ u + t <= v + y + Cardinality(shares) - 1
      BY <2>2, <3>1, <3>2, <3>4
    <3> QED BY <3>2, <3>3, <3>4 DEF RateInv, RateWindow
  <2>4. \A j \in Keys, s \in Stamps : Late(j, s)' = Late(j, s)
    BY <1>1 DEF Late
  <2> QED BY <1>1, <2>3, <2>4 DEF RateWindow
<1>22. RefusedAboveLimit'
  <2>1. PICK D : D = IF allowed THEN {} ELSE {<<k, time>>}
    OBVIOUS
  <2>2. D \in SUBSET (Keys \X Stamps) /\ denied' = denied \cup D
    BY <1>2, <1>14, <2>1
  <2>3. ASSUME ~allowed PROVE After(asked'[k], time - WINDOW) > Limit[k]
    <3>1. asked[k] \in [Stamps -> Nat] /\ \A x \in Stamps : m[x] <= asked[k][x]
      BY <1>1, RateNumbers DEF RateInv, RateCounted
    <3>2. After(m, b) <= After(asked[k], b) /\ After(m, b) \in Nat /\ After(asked[k], b) \in Nat
      BY <1>2, <3>1, AfterMonotone, WindowSums
    <3> QED BY <1>2, <1>7, <1>8, <2>3, <3>2
  <2>4. \A e \in D : After(asked'[e[1]], e[2] - WINDOW) > Limit[e[1]]
    BY <2>1, <2>3
  <2> QED BY <1>1, <1>8, <2>2, <2>4, RefusalsStand DEF RateInv
<1> QED BY <1>15, <1>16, <1>18, <1>21, <1>22 DEF RateInv

LEMMA CheckRedisStep ==
    ASSUME RateInv, NEW p \in Workers, CheckRedis(p) PROVE RateInv'
<1>1. PICK k \in Keys, a \in Stamps : k = freq[p].key /\ a = freq[p].at
  BY DEF RateInv, RateTypeOK, CheckRequest
<1> DEFINE z == zset[k]
           b == a - WINDOW
           w == Cleaned(zset[k], b)
           allowed == After(w, -1) < Limit[k]
<1>2. /\ RateTypeOK /\ freq[p].pc = "pipeline" /\ Tally(k, a, allowed)
      /\ zset' = [zset EXCEPT ![k] = [w EXCEPT ![a] = @ + 1]]
      /\ freq' = [freq EXCEPT ![p] = FIdle]
      /\ UNCHANGED <<shares, redisUp, memory, time, asked>>
  BY <1>1 DEF RateInv, CheckRedis, Cleaned
<1>3. /\ z \in [Stamps -> Nat] /\ a \in Int /\ b \in Int /\ b < a /\ Limit[k] \in Nat /\ WINDOW \in Nat
      /\ p \in shares /\ a <= time /\ time \in Int
  BY <1>1, <1>2, RateNumbers, RateAssumption, StampSets DEF RateInv, RateStamped
<1>4. /\ w \in [Stamps -> Nat] /\ (\A x \in Stamps : w[x] <= z[x]) /\ After(w, -1) = After(z, b)
      /\ \A s \in Stamps : b <= s - WINDOW => InWindow(w, s) = InWindow(z, s)
  BY <1>3, CleanedWindow
<1>5. PICK d \in {0, 1} : d = IF allowed THEN 1 ELSE 0
  OBVIOUS
<1>6. PICK n : n = [w EXCEPT ![a] = @ + 1]
  OBVIOUS
<1>7. /\ n \in [Stamps -> Nat] /\ \A x \in Stamps : n[x] = w[x] + IF x = a THEN 1 ELSE 0
      /\ \A s \in Stamps : InWindow(n, s) = InWindow(w, s) + IF a \in Window(s) THEN 1 ELSE 0
  <2>1. PICK u : u = w
    OBVIOUS
  <2>2. u \in [Stamps -> Nat]
    BY <1>4, <2>1
  <2>3. n \in [Stamps -> Nat] /\ n[a] = u[a] + 1 /\ \A x \in Stamps \ {a} : n[x] = u[x]
    BY <1>6, <2>1, <2>2, OneMoreAt
  <2>4. /\ \A x \in Stamps : n[x] = u[x] + IF x = a THEN 1 ELSE 0
        /\ \A s \in Stamps : InWindow(n, s) = InWindow(u, s) + IF a \in Window(s) THEN 1 ELSE 0
    BY <2>2, <2>3, OneMoreInWindow
  <2> QED BY <2>1, <2>3, <2>4
<1>8. /\ allowed <=> After(z, b) < Limit[k]
      /\ allowed => After(w, -1) < Limit[k]
  BY <1>4
<1>9. zset' = [zset EXCEPT ![k] = n]
  BY <1>2, <1>6
<1> HIDE DEF w, allowed
<1>10. /\ freq' \in [Workers -> CheckRequest] /\ freq'[p] = FIdle
       /\ \A q \in Workers \ {p} : freq'[q] = freq[q]
       /\ \A j \in Keys, x \in Stamps :
             Cardinality(Pending(j, x)') + (IF j = k /\ x = a THEN 1 ELSE 0) = Cardinality(Pending(j, x))
       /\ \A j \in Keys, s \in Stamps :
             /\ Late(j, s)' = Late(j, s) \ {p}
             /\ Cardinality(Late(j, s)') + (IF j = k /\ a <= s THEN 1 ELSE 0) = Cardinality(Late(j, s))
  <2>1. /\ freq' \in [Workers -> CheckRequest] /\ freq'[p] = FIdle
        /\ \A q \in Workers \ {p} : freq'[q] = freq[q]
        /\ \A j \in Keys, x \in Stamps :
              Cardinality(Pending(j, x)') + (IF j = freq[p].key /\ x = freq[p].at THEN 1 ELSE 0)
                 = Cardinality(Pending(j, x))
        /\ \A j \in Keys, s \in Stamps :
              /\ Late(j, s)' = Late(j, s) \ {p}
              /\ Cardinality(Late(j, s)') + (IF j = freq[p].key /\ freq[p].at <= s THEN 1 ELSE 0)
                    = Cardinality(Late(j, s))
    BY <1>2, PendingShrinks
  <2> QED BY <1>1, <2>1
<1>11. ASSUME NEW j \in Keys, NEW x \in Stamps
       PROVE  /\ zset[j][x] + Cardinality(Pending(j, x)) <= asked[j][x]
              /\ let[j][x] + Cardinality(Pending(j, x)) <= asked[j][x]
              /\ zset[j][x] \in Nat /\ let[j][x] \in Nat /\ asked[j][x] \in Nat /\ asked[j][x] <= MaxAsked
              /\ Cardinality(Pending(j, x)) \in Nat /\ Cardinality(Pending(j, x)') \in Nat
  <2>1. asked[j][x] \in 0..MaxAsked
    BY <1>2 DEF RateTypeOK, Counters
  <2>2. asked[j][x] \in Nat /\ asked[j][x] <= MaxAsked
    BY <2>1, RateAssumption
  <2>3. /\ zset[j][x] + Cardinality(Pending(j, x)) <= asked[j][x]
        /\ let[j][x] + Cardinality(Pending(j, x)) <= asked[j][x]
    BY DEF RateInv, RateCounted
  <2>4. zset[j][x] \in Nat /\ let[j][x] \in Nat
    BY <1>2, RateNumbers
  <2> QED BY <2>2, <2>3, <2>4, CountsOfPending, CountsLater
<1>12. let[k][a] < MaxAsked /\ z[a] < asked[k][a]
  <2>1. PICK c, e \in Nat : c = Cardinality(Pending(k, a)) /\ e = Cardinality(Pending(k, a)') /\ e + 1 = c
    BY <1>10, <1>11
  <2> QED BY <1>11, <2>1, RateAssumption
<1>13. /\ let' \in Counters /\ \A j \in Keys \ {k} : let'[j] = let[j]
       /\ \A x \in Stamps : let'[k][x] = let[k][x] + IF x = a THEN d ELSE 0
       /\ \A s \in Stamps : InWindow(let'[k], s) = InWindow(let[k], s) + IF a \in Window(s) THEN d ELSE 0
       /\ denied' = denied \cup (IF allowed THEN {} ELSE {<<k, a>>})
       /\ denied' \subseteq Keys \X Stamps
  <2>1. allowed \in BOOLEAN
    BY DEF allowed
  <2>2. /\ let' \in Counters /\ \A j \in Keys \ {k} : let'[j] = let[j]
        /\ \A x \in Stamps : let'[k][x] = let[k][x] + IF allowed /\ x = a THEN 1 ELSE 0
        /\ \A x \in Stamps :
              InWindow(let'[k], x) = InWindow(let[k], x) + IF allowed /\ a \in Window(x) THEN 1 ELSE 0
        /\ denied' = denied \cup (IF allowed THEN {} ELSE {<<k, a>>})
        /\ denied' \subseteq Keys \X Stamps
    BY <1>2, <1>12, <2>1, Tallied
  <2>3. (allowed => d = 1) /\ (~allowed => d = 0)
    BY <1>5
  <2> QED BY <2>2, <2>3
<1>14. ASSUME NEW x \in Stamps
       PROVE  n[x] + Cardinality(Pending(k, x)') <= asked[k][x] /\ n[x] <= MaxAsked
  <2>1. PICK c, e \in Nat : /\ c = Cardinality(Pending(k, x)) /\ e = Cardinality(Pending(k, x)')
                            /\ e + (IF x = a THEN 1 ELSE 0) = c
    BY <1>10, <1>11
  <2>2. w[x] \in Nat /\ w[x] <= z[x] /\ n[x] = w[x] + (IF x = a THEN 1 ELSE 0) /\ z[x] + c <= asked[k][x]
        /\ z[x] \in Nat /\ asked[k][x] \in Nat /\ asked[k][x] <= MaxAsked
    BY <1>4, <1>7, <1>11, <2>1
  <2> QED BY <2>1, <2>2, RateAssumption
<1>15. zset' \in Counters /\ zset'[k] = n /\ \A j \in Keys \ {k} : zset'[j] = zset[j]
  <2>1. n \in [Stamps -> 0..MaxAsked]
    BY <1>7, <1>14, CounterOf
  <2>2. PICK t \in Counters : t = zset
    BY <1>2 DEF RateTypeOK
  <2>3. /\ [t EXCEPT ![k] = n] \in Counters /\ [t EXCEPT ![k] = n][k] = n
        /\ \A j \in Keys \ {k} : [t EXCEPT ![k] = n][j] = t[j]
    BY <2>1, CounterSet
  <2> QED BY <1>9, <2>2, <2>3
<1>16. RateTypeOK' /\ (shares' = {} => zset' = NoStamps)
  BY <1>2, <1>3, <1>10, <1>13, <1>15 DEF RateTypeOK
<1>17. RateStamped'
  BY <1>2, <1>10 DEF RateInv, RateStamped, FIdle
<1>18. RateCounted'
  <2>1. ASSUME NEW j \in Keys, NEW x \in Stamps
        PROVE  /\ zset'[j][x] + Cardinality(Pending(j, x)') <= asked[j][x]
               /\ let'[j][x] + Cardinality(Pending(j, x)') <= asked[j][x]
    <3>1. PICK c, e \in Nat : /\ c = Cardinality(Pending(j, x)) /\ e = Cardinality(Pending(j, x)')
                              /\ e + (IF j = k /\ x = a THEN 1 ELSE 0) = c
      BY <1>10, <1>11
    <3>2. CASE j = k
      <4>1. let'[k][x] = let[k][x] + IF x = a THEN d ELSE 0
        BY <1>13
      <4>2. let[k][x] + c <= asked[k][x] /\ let[k][x] \in Nat /\ asked[k][x] \in Nat
        BY <1>11, <3>1, <3>2
      <4>3. let'[k][x] + e <= asked[k][x]
        BY <1>5, <3>1, <3>2, <4>1, <4>2
      <4> QED BY <1>14, <1>15, <3>1, <3>2, <4>3
    <3>3. CASE j # k
      BY <1>11, <1>13, <1>15, <3>1, <3>3
    <3> QED BY <3>2, <3>3
  <2> QED BY <1>2, <2>1 DEF RateInv, RateCounted
<1>19. RateMemory'
  BY <1>2 DEF RateInv, RateMemory
<1>20. RefusedAboveLimit'
  <2>1. PICK D : D = IF allowed THEN {} ELSE {<<k, a>>}
    OBVIOUS
  <2>2. D \in SUBSET (Keys \X Stamps) /\ denied' = denied \cup D
    BY <1>13, <2>1
  <2>3. ASSUME ~allowed PROVE After(asked[k], a - WINDOW) > Limit[k]
    <3>1. PICK g : g = [z EXCEPT ![a] = @ + 1]
      OBVIOUS
    <3>2. g \in [Stamps -> Nat] /\ g[a] = z[a] + 1 /\ \A x \in Stamps \ {a} : g[x] = z[x]
      BY <1>3, <3>1, OneMoreAt
    <3>3. After(g, b) = After(z, b) + 1
      BY <1>3, <3>2, OneMoreInWindow
    <3>4. ASSUME NEW x \in Stamps PROVE g[x] <= asked[k][x]
      <4>1. zset[k][x] <= asked[k][x] /\ asked[k][x] \in Nat /\ zset[k][x] \in Nat
        BY <1>11
      <4> QED BY <1>11, <1>12, <3>2, <4>1
    <3>5. asked[k] \in [Stamps -> Nat]
      BY <1>2, RateNumbers
    <3>6. After(g, b) <= After(asked[k], b) /\ After(z, b) \in Nat /\ After(asked[k], b) \in Nat
      BY <1>3, <3>2, <3>4, <3>5, AfterMonotone, WindowSums
    <3> QED BY <1>3, <1>8, <2>3, <3>3, <3>6
  <2>4. \A e \in D : After(asked'[e[1]], e[2] - WINDOW) > Limit[e[1]]
    BY <1>2, <2>1, <2>3
  <2>5. \A j \in Keys, s \in Int : After(asked'[j], s) \in Nat /\ After(asked[j], s) <= After(asked'[j], s)
    <3>1. \A j \in Keys, s \in Int : After(asked[j], s) \in Nat
      BY <1>2, RateNumbers
    <3> QED BY <1>2, <3>1
  <2> QED BY <1>2, <2>2, <2>4, <2>5, RefusalsStand DEF RateInv
<1>21. \A j \in Keys, s \in Stamps : InMemories(j, s)' = InMemories(j, s)
  BY <1>2 DEF InMemories
<1>22. IsFiniteSet(shares) /\ Cardinality(shares) \in Nat
  BY <1>2, RateAssumption, FS_Subset, FS_CardinalityType DEF RateTypeOK
<1>23. ASSUME NEW s \in Stamps PROVE Cardinality(Late(k, s)') <= Cardinality(shares) - 1
  <2>1. Late(k, s)' \subseteq shares \ {p}
    <3>1. Late(k, s)' = Late(k, s) \ {p}
      BY <1>10
    <3>2. Late(k, s) \subseteq shares
      BY DEF RateInv, RateStamped, Late
    <3> QED BY <3>1, <3>2
  <2>2. IsFiniteSet(shares \ {p}) /\ Cardinality(shares \ {p}) = Cardinality(shares) - 1
    BY <1>3, <1>22, FS_RemoveElement
  <2> QED BY <2>1, <2>2, FS_Subset
<1>24. ASSUME NEW j \in Keys, NEW s \in Stamps
       PROVE  \/ /\ InWindow(let'[j], s) <= InMemories(j, s) + InWindow(zset'[j], s)
                 /\ InWindow(let'[j], s) <= InMemories(j, s) + Limit[j]
              \/ /\ shares # {} /\ time > s
                 /\ InWindow(let'[j], s) + Cardinality(Late(j, s)')
                       <= InMemories(j, s) + Limit[j] + Cardinality(shares) - 1
  <2> DEFINE Fine(u, v, x, y, t, h) ==
                 \/ u <= v + x /\ u <= v + y
                 \/ shares # {} /\ time > s /\ u + t <= v + y + h - 1
  <2>1. PICK u, v, x, y, t, h \in Nat :
            /\ u = InWindow(let[j], s) /\ v = InMemories(j, s) /\ x = InWindow(zset[j], s)
            /\ y = Limit[j] /\ t = Cardinality(Late(j, s)) /\ h = Cardinality(shares)
    BY <1>2, <1>22, RateNumbers, CountsOfPending
  <2>2. Fine(u, v, x, y, t, h)
    BY <2>1 DEF RateInv, RateWindow
  <2>3. PICK t2 \in Nat : t2 = Cardinality(Late(j, s)') /\ t2 + (IF j = k /\ a <= s THEN 1 ELSE 0) = t
    BY <1>10, <2>1, CountsLater
  <2>4. s \in Int /\ shares # {}
    BY <1>3, StampSets
  <2>5. CASE j # k
    <3>1. let'[j] = let[j] /\ zset'[j] = zset[j] /\ t2 = t
      BY <1>13, <1>15, <2>3, <2>5
    <3> QED BY <2>1, <2>2, <2>3, <3>1
  <2>6. CASE j = k /\ a > s
    <3>1. a \notin Window(s)
      BY <1>3, <2>4, <2>6 DEF Window
    <3>2. InWindow(let'[j], s) = u
      BY <1>13, <2>1, <2>6, <3>1
    <3>3. t2 <= h - 1
      BY <1>23, <2>1, <2>3, <2>6
    <3>4. t2 = t /\ time > s
      BY <1>3, <2>3, <2>4, <2>6
    <3>5. u + t2 <= v + y + h - 1
      BY <2>2, <3>3, <3>4
    <3> QED BY <2>1, <2>3, <2>4, <3>2, <3>4, <3>5
  <2>7. CASE j = k /\ a <= s
    <3>1. PICK e \in {0, 1} : e = IF a \in Window(s) THEN d ELSE 0
      BY <1>5
    <3>2. InWindow(let'[j], s) = u + e
      BY <1>13, <2>1, <2>7, <3>1
    <3>3. t2 + 1 = t
      BY <2>3, <2>7
    <3>4. b <= s - WINDOW
      BY <1>3, <2>4, <2>7
    <3>5. x = InWindow(w, s) /\ InWindow(zset'[j], s) = x + IF a \in Window(s) THEN 1 ELSE 0
      BY <1>4, <1>7, <1>15, <2>1, <2>7, <3>4
    <3>6. PICK x2 \in Nat : x2 = InWindow(zset'[j], s) /\ x + e <= x2
      BY <1>5, <3>1, <3>5
    <3>7. e = 1 => x < y
      <4>1. x <= After(w, -1) /\ After(w, -1) \in Nat
        BY <1>4, <3>5, WindowSums
      <4>2. e = 1 => allowed
        BY <1>5, <3>1
      <4> QED BY <1>8, <2>1, <2>7, <4>1, <4>2
    <3>8. CASE u <= v + x /\ u <= v + y
      <4>1. u + e <= v + x2 /\ u + e <= v + y
        BY <3>1, <3>6, <3>7, <3>8
      <4> QED BY <2>1, <3>2, <3>6, <4>1
    <3>9. CASE shares # {} /\ time > s /\ u + t <= v + y + h - 1
      <4>1. u + e + t2 <= v + y + h - 1
        BY <3>1, <3>3, <3>9
      <4> QED BY <2>1, <2>3, <3>2, <3>9, <4>1
    <3> QED BY <2>2, <3>8, <3>9
  <2>8. j # k \/ (j = k /\ a > s) \/ (j = k /\ a <= s)
    BY <1>3, <2>4
  <2> QED BY <2>5, <2>6, <2>7, <2>8
<1>25. RateWindow'
  BY <1>2, <1>21, <1>24 DEF RateWindow
<1> QED BY <1>16, <1>17, <1>18, <1>19, <1>20, <1>25 DEF RateInv

LEMMA RateUnchanged ==
    ASSUME RateInv, redisUp' \in BOOLEAN,
           UNCHANGED <<shares, zset, memory, time, asked, let, denied, freq>>
    PROVE  RateInv'
<1>1. RateTypeOK' /\ RateStamped' /\ RateMemory' /\ RefusedAboveLimit' /\ (shares' = {} => zset' = NoStamps)
  BY DEF RateInv, RateTypeOK, RateStamped, RateMemory, RefusedAboveLimit
<1>2. \A k \in Keys, s \in Stamps : /\ Pending(k, s)' = Pending(k, s) /\ Late(k, s)' = Late(k, s)
                                     /\ InMemories(k, s)' = InMemories(k, s)
  BY DEF Pending, Late, InMemories
<1>3. RateCounted' /\ RateWindow'
  BY <1>2 DEF RateInv, RateCounted, RateWindow
<1> QED BY <1>1, <1>3 DEF RateInv

LEMMA RateStep == RateInv /\ [RateNext]_rateVars => RateInv'
<1> SUFFICES ASSUME RateInv, [RateNext]_rateVars PROVE RateInv'
  OBVIOUS
<1>1. ASSUME NEW p \in Workers, NEW k \in Keys, Stamp(p, k) \/ CheckMemory(p, k) PROVE RateInv'
  BY <1>1, RateStampStep, CheckMemoryStep
<1>2. ASSUME NEW p \in Workers, CheckRedis(p) \/ FallBack(p) PROVE RateInv'
  BY <1>2, CheckRedisStep, FallBackStep
<1>3. CASE Instant
  BY <1>3, InstantStep
<1>4. CASE Outage
  <2>1. redisUp' \in BOOLEAN /\ UNCHANGED <<shares, zset, memory, time, asked, let, denied, freq>>
    BY <1>4 DEF Outage, RateInv, RateTypeOK
  <2> QED BY <2>1, RateUnchanged
<1>5. CASE UNCHANGED rateVars
  <2>1. redisUp' \in BOOLEAN /\ UNCHANGED <<shares, zset, memory, time, asked, let, denied, freq>>
    BY <1>5 DEF rateVars, RateInv, RateTypeOK
  <2> QED BY <2>1, RateUnchanged
<1> QED BY <1>1, <1>2, <1>3, <1>4, <1>5 DEF RateNext

(* What a window let through is never more than the bound. *)
LEMMA RateBounded == RateInv => WithinLimit
<1> SUFFICES ASSUME RateInv, NEW k \in Keys, NEW s \in Stamps
             PROVE  InWindow(let[k], s) <= Allowance(k)
  BY DEF WithinLimit
<1> DEFINE W == Workers \ shares
           f == [p \in Workers |-> IF s >= time THEN InWindow(memory[p][k], s) ELSE Limit[k]]
           g == [p \in Workers |-> Limit[k]]
<1>1. RateTypeOK /\ Limit[k] \in Nat
  BY RateAssumption DEF RateInv
<1>2. /\ IsFiniteSet(W) /\ Cardinality(W) \in Nat /\ IsFiniteSet(shares) /\ Cardinality(shares) \in Nat
      /\ W \subseteq Workers
  BY <1>1, RateAssumption, FS_Subset, FS_CardinalityType DEF RateTypeOK
<1>3. ASSUME NEW p \in Workers PROVE f[p] \in Int /\ g[p] \in Int /\ f[p] <= g[p] /\ g[p] = Limit[k]
  <2>1. memory[p][k] \in [Stamps -> Nat]
    BY <1>1, RateNumbers
  <2>2. InWindow(memory[p][k], s) \in Nat /\ InWindow(memory[p][k], s) <= After(memory[p][k], -1)
    BY <2>1, WindowSums
  <2>3. After(memory[p][k], -1) \in Nat /\ After(memory[p][k], -1) <= Limit[k]
    BY <2>1, WindowSums DEF RateInv, RateMemory
  <2>4. InWindow(memory[p][k], s) <= Limit[k]
    BY <1>1, <2>2, <2>3
  <2> QED BY <1>1, <2>2, <2>4
<1>4. InMemories(k, s) = SumFunctionOnSet(f, W)
  BY DEF InMemories
<1> HIDE DEF W, f, g
<1>5. \A p \in W : f[p] \in Int /\ g[p] \in Int /\ f[p] <= g[p] /\ g[p] = Limit[k]
  BY <1>2, <1>3
<1>6. SumFunctionOnSet(f, W) <= SumFunctionOnSet(g, W)
  BY <1>2, <1>5, SumMonotone
<1>7. SumFunctionOnSet(g, W) = Limit[k] * Cardinality(W)
  BY <1>1, <1>2, <1>5, SumOfEqual
<1>8. InMemories(k, s) \in Nat /\ InWindow(let[k], s) \in Nat /\ InWindow(zset[k], s) \in Nat
  BY <1>1, RateNumbers
<1>9. PICK c \in Nat : c = Limit[k] * Cardinality(W) /\ InMemories(k, s) <= c
  BY <1>1, <1>2, <1>4, <1>6, <1>7
<1>10. Allowance(k) = c + (IF shares = {} THEN 0 ELSE Limit[k] + Cardinality(shares) - 1)
  BY <1>9 DEF Allowance, W
<1>11. CASE shares = {}
  <2>1. InWindow(zset[k], s) = 0
    BY <1>11, NothingCounted DEF RateInv
  <2>2. InWindow(let[k], s) <= InMemories(k, s) + InWindow(zset[k], s)
    BY <1>11 DEF RateInv, RateWindow
  <2> QED BY <1>8, <1>9, <1>10, <1>11, <2>1, <2>2
<1>12. CASE shares # {}
  <2>1. Cardinality(shares) >= 1
    BY <1>2, <1>12, FS_EmptySet
  <2>2. PICK u, v, y, t, h \in Nat : /\ u = InWindow(let[k], s) /\ v = InMemories(k, s) /\ y = Limit[k]
                                     /\ t = Cardinality(Late(k, s)) /\ h = Cardinality(shares)
    BY <1>1, <1>2, <1>8, CountsOfPending
  <2>3. u <= v + y \/ u + t <= v + y + h - 1
    BY <2>2 DEF RateInv, RateWindow
  <2> QED BY <1>9, <1>10, <1>12, <2>1, <2>2, <2>3
<1> QED BY <1>11, <1>12

(* What a window lets through is the limit once for the processes that     *)
(* share Redis, one more for each of the others of them whose pipeline is  *)
(* late, and once for each process that counts alone; and nobody who stays *)
(* below the limit is refused.  For any processes, limits, windows and     *)
(* outages (check_rate_limit of middleware/rate_limit.py).                 *)
THEOREM LimiterStaysConsistent == RateSpec => []RateConsistent
<1>1. RateInv => RateConsistent
  BY RateBounded DEF RateInv, RateConsistent
<1> QED BY <1>1, RateInitInv, RateStep, PTL DEF RateSpec
=============================================================================
