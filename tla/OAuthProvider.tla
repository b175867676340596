---------------------------- MODULE OAuthProvider ----------------------------
(***************************************************************************)
(* The OAuth 2.1 provider of the HTTP server: OAuthClientRegistry and the  *)
(* access tokens (coding_tools_mcp/oauth.py), the authorize, token and     *)
(* register endpoints and is_authorized (server.py).                       *)
(*                                                                         *)
(* Each endpoint has one region under a lock and reads nothing that later  *)
(* changes before or after it (clients are only added), so a request is    *)
(* one action.  Requests that are refused before that region change        *)
(* nothing and are left out.  Time is the time left before an expiry; -1   *)
(* is past it.  A challenge is named after its verifier.  Codes are        *)
(* numbered in the order in which they are drawn, which is the order of    *)
(* pending_codes.                                                          *)
(***************************************************************************)
EXTENDS Integers, FiniteSets

CONSTANTS
  Clients,        \* client ids
  Preregistered,  \* the clients named in the environment
  Redirects,      \* redirect URIs
  Verifiers,      \* PKCE verifiers
  Hosts,          \* base URLs under which the server is reached
  MaxCodes,       \* bound on authorization codes
  MaxClients,     \* MAX_REGISTERED_CLIENTS
  MaxPending,     \* MAX_PENDING_CODES
  CodeTTL,        \* OAUTH_CODE_TTL_SECONDS
  TokenTTL,       \* token_ttl
  StableSecret,   \* the signing key is configured, not drawn at each start
  MaxRestarts,    \* bound on restarts of the server
  NoAuth          \* not registered, not approved, no token

Codes == 1..MaxCodes   \* in the order they are drawn
Methods == {"none", "client_secret_post", "client_secret_basic"}
Registrations == [redirects : SUBSET Redirects, method : Methods]
Approvals == [client : Clients, redirect : Redirects, verifier : Verifiers,
              resource : Hosts, left : -1..CodeTTL]
Tokens == [client : Clients, redirect : Redirects, verifier : Verifiers,
           audience : Hosts, left : 0..TokenTTL]

ASSUME AuthAssumption ==
  /\ Preregistered \subseteq Clients
  /\ NoAuth \notin Registrations \cup Approvals \cup Tokens
  /\ MaxPending \in Nat \ {0} /\ CodeTTL \in Nat /\ TokenTTL \in Nat \ {0}
  /\ MaxCodes \in Nat /\ MaxClients \in Nat /\ MaxRestarts \in Nat /\ StableSecret \in BOOLEAN

VARIABLES
  client,    \* per client id: its registration
  drawn,     \* dynamic client ids ever issued
  pending,   \* pending_codes; the oldest is the one with the least number
  approval,  \* per code: what the user approved, and the time it has left
  log,       \* ghost: the codes approved since the server started
  spent,     \* ghost: the codes presented at the token endpoint
  token,     \* per code: the access token it was exchanged for
  minted,    \* ghost: per code: the number of tokens
  restarts

authVars == <<client, drawn, pending, approval, log, spent, token, minted, restarts>>

Registered == {c \in Clients : client[c] # NoAuth}

(* add_preregistered: a public client without OAUTH_CLIENT_SECRET *)
AtStart(c) ==
  IF c \in Preregistered THEN [redirects |-> Redirects, method |-> "none"] ELSE NoAuth

AuthInit ==
  /\ client = [c \in Clients |-> AtStart(c)] /\ drawn = {}
  /\ pending = {} /\ approval = [k \in Codes |-> NoAuth]
  /\ log = {} /\ spent = {}
  /\ token = [k \in Codes |-> NoAuth] /\ minted = [k \in Codes |-> 0]
  /\ restarts = 0

(* register: a client id that is not in use *)
Register(c, redirects, method) ==
  /\ c \notin drawn \cup Preregistered
  /\ Cardinality(Registered) < MaxClients
  /\ client' = [client EXCEPT ![c] = [redirects |-> redirects, method |-> method]]
  /\ drawn' = drawn \cup {c}
  /\ UNCHANGED <<pending, approval, log, spent, token, minted, restarts>>

Elapsed(k) == approval[k].left < 0
Newer(k, S) == {j \in S : j > k}

(* The codes that stay when a new one comes: expired ones go, then the     *)
(* oldest ones until there is room.                                        *)
MakeRoom ==
  LET valid == {k \in pending : ~Elapsed(k)}
  IN  {k \in valid : Cardinality(Newer(k, valid)) < MaxPending - 1}

(* handle_oauth_authorize_post with the right password *)
Authorize(k, c, redirect, verifier, host) ==
  /\ k = 1 + Cardinality({j \in Codes : approval[j] # NoAuth})
  /\ c \in Registered /\ redirect \in client[c].redirects
  /\ approval' = [approval EXCEPT ![k] =
       [client |-> c, redirect |-> redirect, verifier |-> verifier,
        resource |-> host, left |-> CodeTTL]]
  /\ pending' = MakeRoom \cup {k}
  /\ log' = log \cup {k}
  /\ UNCHANGED <<client, drawn, spent, token, minted, restarts>>

(* Mutant: a code is looked up and stays. *)
PopNever(k) == pending

Pop(k) == pending \ {k}

Matches(k, c, redirect, verifier, resource) ==
  /\ ~Elapsed(k)
  /\ approval[k].client = c
  /\ approval[k].redirect = redirect
  /\ approval[k].resource = resource
  /\ approval[k].verifier = verifier

(* handle_oauth_token by an authenticated client: the code is gone whether *)
(* or not the rest of the request matches it.                              *)
Exchange(k, c, method, redirect, verifier, resource) ==
  LET matches == k \in pending /\ Matches(k, c, redirect, verifier, resource)
  IN
  /\ approval[k] # NoAuth
  /\ c \in Registered /\ client[c].method = method
  /\ pending' = Pop(k)
  /\ spent' = spent \cup {k}
  /\ IF matches
       THEN /\ token' = [token EXCEPT ![k] =
                 [client |-> c, redirect |-> redirect, verifier |-> verifier,
                  audience |-> resource, left |-> TokenTTL]]
            /\ minted' = [minted EXCEPT ![k] = @ + 1]
       ELSE UNCHANGED <<token, minted>>
  /\ UNCHANGED <<client, drawn, approval, log, restarts>>

(* is_authorized, validate_access_token *)
Accepts(k, host) ==
  /\ token[k] # NoAuth
  /\ token[k].left > 0 /\ token[k].audience = host
  /\ token[k].client \in Registered

AuthTick ==
  /\ approval' = [k \in Codes |-> IF approval[k] = NoAuth \/ Elapsed(k) THEN approval[k]
                                  ELSE [approval[k] EXCEPT !.left = @ - 1]]
  /\ token' = [k \in Codes |-> IF token[k] = NoAuth \/ token[k].left = 0 THEN token[k]
                               ELSE [token[k] EXCEPT !.left = @ - 1]]
  /\ UNCHANGED <<client, drawn, pending, log, spent, minted, restarts>>

(* A new process: nothing of this is stored. *)
Restart ==
  /\ restarts < MaxRestarts /\ restarts' = restarts + 1
  /\ client' = [c \in Clients |-> AtStart(c)]
  /\ pending' = {} /\ log' = {}
  /\ token' = IF StableSecret THEN token ELSE [k \in Codes |-> NoAuth]
  /\ UNCHANGED <<drawn, approval, spent, minted>>

AuthNext ==
  \/ \E c \in Clients, r \in (SUBSET Redirects) \ {{}}, m \in Methods : Register(c, r, m)
  \/ \E k \in Codes, c \in Clients, u \in Redirects, v \in Verifiers, h \in Hosts :
       \/ Authorize(k, c, u, v, h)
       \/ \E m \in Methods : Exchange(k, c, m, u, v, h)
  \/ AuthTick
  \/ Restart

AuthSpec == AuthInit /\ [][AuthNext]_authVars

-----------------------------------------------------------------------------
(* Each approval gives at most one token, and a token that is accepted was *)
(* obtained by the client, for the redirect URI, with the verifier and for *)
(* the server that the user approved, through a restart too.               *)
GrantsMatchApprovals ==
  \A k \in Codes :
    /\ minted[k] <= 1
    /\ \A h \in Hosts : Accepts(k, h) =>
         /\ approval[k] # NoAuth
         /\ approval[k].client = token[k].client
         /\ approval[k].redirect = token[k].redirect
         /\ approval[k].verifier = token[k].verifier
         /\ approval[k].resource = h

(* There are never more pending codes than allowed, and a code that was    *)
(* neither presented nor pushed out by MaxPending newer approvals can be   *)
(* exchanged until it expires.                                             *)
PendingKept ==
  /\ Cardinality(pending) <= MaxPending
  /\ \A k \in log :
       k \notin spent /\ ~Elapsed(k) /\ Cardinality(Newer(k, log)) < MaxPending =>
         k \in pending

(* What the user approves is granted once, to whom and for what it was     *)
(* approved, and is not lost before its time.                              *)
GrantsHonoured == GrantsMatchApprovals /\ PendingKept
=============================================================================
