-------------------------------- MODULE MCSignIn --------------------------------
(***************************************************************************)
(* The ways in: the lockout of logins, password reset, OAuth, the second   *)
(* factor, the rate limiter and the browser's end of a session.  They      *)
(* share no state that several write, so each behaviour steps through one  *)
(* of them (part).                                                         *)
(***************************************************************************)
EXTENDS LoginLockout, PasswordReset, OAuthSignIn, RateLimit, BrowserSession, Mfa, TLC

CONSTANTS g1, h2, h1, anna, placeholder, k1
MCProvider == g1 :> "google" @@ h2 :> "github" @@ h1 :> "github"
MCName == g1 :> anna @@ h1 :> anna @@ h2 :> placeholder
MCLimit == k1 :> 2

(* Which operations on the second factor overlap, while the clock has not *)
(* reached its end; the others are alone.                                  *)
(* Setup and activation are refused when it is enabled, and the codes that *)
(* "verify" is about do not exist before.                                  *)
FactorParts == "enrol" :> {"setup", "enable", "disable"}
            @@ "verify" :> {"login", "regenerate", "disable", "recover"}

VARIABLE part
mcVars == <<part, lockoutVars, resetVars, oauthVars, rateVars, browserVars, vars>>
MCInit ==
    /\ LockoutInit /\ ResetInit /\ OAuthInit /\ RateInit /\ BrowserInit /\ Init
    /\ part \in {"lockout", "reset", "oauth", "rate", "browser"} \cup DOMAIN FactorParts
    /\ lastAccount <= 1 /\ accounts[1] \in {anna, Nobody} /\ (part # "oauth" => lastAccount = 0)
    /\ part # "rate" => shares = {}
MCNext ==
    /\ UNCHANGED part
    /\ \/ part = "lockout" /\ LockoutNext /\ UNCHANGED <<resetVars, oauthVars, rateVars, browserVars, vars>>
       \/ part = "reset" /\ ResetNext /\ UNCHANGED <<lockoutVars, oauthVars, rateVars, browserVars, vars>>
       \/ part = "oauth" /\ OAuthNext /\ (lastState' <= 1 \/ lastLink' <= 1) /\ UNCHANGED <<lockoutVars, resetVars, rateVars, browserVars, vars>>
       \/ part = "rate" /\ RateNext /\ UNCHANGED <<lockoutVars, resetVars, oauthVars, browserVars, vars>>
       \/ part = "browser" /\ BrowserNext /\ UNCHANGED <<lockoutVars, resetVars, oauthVars, rateVars, vars>>
       \/ /\ part \in DOMAIN FactorParts /\ Next
          /\ \A r, q \in Workers : r # q /\ req'[r].pc \notin Resting /\ req'[q].pc \notin Resting =>
                req'[r].op \in FactorParts[part] \cup {"none"} /\ now' < 2
          /\ UNCHANGED <<lockoutVars, resetVars, oauthVars, rateVars, browserVars>>
MCSpec == MCInit /\ [][MCNext]_mcVars
Symmetry == Permutations(Workers)
=============================================================================
