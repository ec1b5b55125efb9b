------------------------------- MODULE Logins -------------------------------
(***************************************************************************)
(* Logins from one address: the throttle of services/throttle.py, the      *)
(* login and logout routes of api/routes/auth.py and the token denylist of *)
(* services/token.py.                                                      *)
(*                                                                         *)
(* The counters and the denylist are keys in Redis that expire; Redis runs *)
(* one command at a time and every command of a request is an await of its *)
(* own, so the commands of requests interleave. Time is a number of ticks  *)
(* of the shortest lockout.                                                *)
(***************************************************************************)
EXTENDS FiniteSetsExt, Integers

CONSTANTS Username,        \* names a login may use
          Client,          \* login requests that may be in flight together
          MaxAttempts,     \* LOGIN_MAX_ATTEMPTS
          IpMaxAttempts,   \* LOGIN_IP_MAX_ATTEMPTS
          MaxLockout,      \* LOGIN_MAX_LOCKOUT_SECONDS, in ticks
          Lifetime         \* ACCESS_TOKEN_EXPIRE_MINUTES, in ticks

ASSUME LoginConstants ==
  /\ "ip" \notin Username /\ IsFiniteSet(Client)
  /\ MaxAttempts \in Nat \ {0} /\ IpMaxAttempts \in Nat \ {0}
  /\ MaxLockout \in Nat \ {0} /\ Lifetime \in Nat \ {0}

VARIABLES count,     \* the failure counters: of each name and of the address
          ttl,       \* the ticks each counter has left
          login,     \* the login requests in flight
          token,     \* the ticks the token of each client has left
          denied,    \* the ticks the denylist entry of that token has left
          signedOut  \* a logout of that token has been answered

loginVars == <<count, ttl, login, token, denied, signedOut>>

Key == Username \cup {"ip"}

\* NoTTL: a key that never expires; it has been incremented, and its EXPIRE is
\* still to come
NoTTL == -1

LoginIdle == [pc |-> "idle"]

LoginState ==
  [pc : {"check", "verify", "incr", "expire", "clear"},
   name : Username, key : Key, value : Nat]

LoginsInit ==
  /\ count = [k \in Key |-> 0] /\ ttl = [k \in Key |-> 0]
  /\ login = [c \in Client |-> LoginIdle]
  /\ token = [c \in Client |-> 0] /\ denied = [c \in Client |-> 0]
  /\ signedOut = [c \in Client |-> FALSE]

\* The exponential lockout: doubled with each failure, capped.
backoff_ttl(n) == Min({MaxLockout, 2 ^ Min({n - 1, 10})})

is_throttled_offByOne(name) ==
  count[name] > MaxAttempts \/ count["ip"] > IpMaxAttempts

is_throttled(name) == count[name] >= MaxAttempts \/ count["ip"] >= IpMaxAttempts

----------------------------------------------------------------------------
\* A client without a token posts its credentials.
PostLogin(c, name) ==
  /\ login[c] = LoginIdle /\ token[c] = 0
  /\ login' = [login EXCEPT ![c] =
       [pc |-> "check", name |-> name, key |-> name, value |-> 0]]
  /\ UNCHANGED <<count, ttl, token, denied, signedOut>>

\* The two counters are read; an exhausted budget answers 429.
Check(c) ==
  /\ login[c].pc = "check"
  /\ login' = [login EXCEPT ![c] =
       IF is_throttled(@.name) THEN LoginIdle ELSE [@ EXCEPT !.pc = "verify"]]
  /\ UNCHANGED <<count, ttl, token, denied, signedOut>>

\* The row is loaded and the password verified. A wrong one is to be recorded;
\* a right one clears the counters, unless the account is not active (403).
Verify(c) ==
  /\ login[c].pc = "verify"
  /\ \E next \in {LoginIdle, [login[c] EXCEPT !.pc = "incr"],
                  [login[c] EXCEPT !.pc = "clear"]} :
       login' = [login EXCEPT ![c] = next]
  /\ UNCHANGED <<count, ttl, token, denied, signedOut>>

\* record_failed_attempt, for the key of the name and then of the address:
\* INCR creates a key without expiry or keeps the expiry it has,
incr(c) ==
  /\ login[c].pc = "incr"
  /\ LET k == login[c].key IN
     /\ count' = [count EXCEPT ![k] = @ + 1]
     /\ ttl' = [ttl EXCEPT ![k] = IF count[k] = 0 THEN NoTTL ELSE @]
     /\ login' = [login EXCEPT ![c] =
                    [@ EXCEPT !.pc = "expire", !.value = count[k] + 1]]
  /\ UNCHANGED <<token, denied, signedOut>>

expire_nameOnly(c) ==
  /\ login[c].pc = "expire"
  /\ LET k == login[c].key IN
     /\ ttl' = [ttl EXCEPT ![k] =
                  IF k = "ip" \/ count[k] = 0 THEN @ ELSE backoff_ttl(login[c].value)]
     /\ login' = [login EXCEPT ![c] =
          IF k = "ip" THEN LoginIdle
          ELSE [@ EXCEPT !.pc = "incr", !.key = "ip", !.value = 0]]
  /\ UNCHANGED <<count, token, denied, signedOut>>

\* and EXPIRE, with the backoff of the value that INCR returned.
expire(c) ==
  /\ login[c].pc = "expire"
  /\ LET k == login[c].key IN
     /\ ttl' = [ttl EXCEPT ![k] =
                  IF count[k] = 0 THEN @ ELSE backoff_ttl(login[c].value)]
     /\ login' = [login EXCEPT ![c] =
          IF k = "ip" THEN LoginIdle
          ELSE [@ EXCEPT !.pc = "incr", !.key = "ip", !.value = 0]]
  /\ UNCHANGED <<count, token, denied, signedOut>>

\* clear_attempts deletes the two keys; then the token is issued.
clear_attempts(c) ==
  /\ login[c].pc = "clear"
  /\ LET k == login[c].key IN
     /\ count' = [count EXCEPT ![k] = 0]
     /\ ttl' = [ttl EXCEPT ![k] = 0]
     /\ IF k = "ip"
        THEN /\ login' = [login EXCEPT ![c] = LoginIdle]
             /\ token' = [token EXCEPT ![c] = Lifetime]
             /\ denied' = [denied EXCEPT ![c] = 0]
             /\ signedOut' = [signedOut EXCEPT ![c] = FALSE]
        ELSE /\ login' = [login EXCEPT ![c].key = "ip"]
             /\ UNCHANGED <<token, denied, signedOut>>

\* get_current_user: a token is accepted until it expires or is denied.
Accepted(c) == token[c] > 0 /\ denied[c] = 0

revocation_ttl_short == Lifetime - 1

\* revoke_token: the entry lives as long as a fresh token would.
revocation_ttl == Lifetime

\* The logout route, and the client forgets nothing: it may try the token again.
logout(c) ==
  /\ Accepted(c)
  /\ denied' = [denied EXCEPT ![c] = revocation_ttl]
  /\ signedOut' = [signedOut EXCEPT ![c] = TRUE]
  /\ UNCHANGED <<count, ttl, login, token>>

\* A tick: keys without time left expire, and so do tokens.
Tick ==
  /\ \E k \in Key : ttl[k] > 0 \/ \E c \in Client : token[c] > 0 \/ denied[c] > 0
  /\ count' = [k \in Key |-> IF ttl[k] = 1 THEN 0 ELSE count[k]]
  /\ ttl' = [k \in Key |-> IF ttl[k] > 0 THEN ttl[k] - 1 ELSE ttl[k]]
  /\ token' = [c \in Client |-> IF token[c] > 0 THEN token[c] - 1 ELSE 0]
  /\ denied' = [c \in Client |-> IF denied[c] > 0 THEN denied[c] - 1 ELSE 0]
  /\ UNCHANGED <<login, signedOut>>

LoginStep(c) ==
  Check(c) \/ Verify(c) \/ incr(c) \/ expire(c) \/ clear_attempts(c)

LoginsNext ==
  \/ \E c \in Client, name \in Username : PostLogin(c, name)
  \/ \E c \in Client : LoginStep(c) \/ logout(c)
  \/ Tick

\* A request in flight is served, and time passes.
LoginsFairness == WF_loginVars(Tick) /\ \A c \in Client : WF_loginVars(LoginStep(c))

LoginsSpec == LoginsInit /\ [][LoginsNext]_loginVars /\ LoginsFairness

----------------------------------------------------------------------------
\* Every variable has its type, and only a counter that counts something
\* has time left or none to expire.
LoginsTypeOK ==
  /\ count \in [Key -> Nat]
  /\ ttl \in [Key -> NoTTL .. MaxLockout]
  /\ \A k \in Key : count[k] = 0 <=> ttl[k] = 0
  /\ login \in [Client -> {LoginIdle} \cup LoginState]
  /\ token \in [Client -> 0 .. Lifetime] /\ denied \in [Client -> 0 .. Lifetime]
  /\ signedOut \in [Client -> BOOLEAN]

\* Logins that pass the check together may overrun the budget, but by no more
\* than the requests in flight beside the one that exhausts it
\* (throttle.is_throttled against record_failed_attempt).
GuessesBounded ==
  /\ \A n \in Username : count[n] <= MaxAttempts + Cardinality(Client) - 1
  /\ count["ip"] <= IpMaxAttempts + Cardinality(Client) - 1

\* A token that was logged out is not accepted again: its denylist entry
\* outlives it (services/token.py, get_current_user).
LoggedOutStaysOut == \A c \in Client : signedOut[c] => ~Accepted(c)

\* A lockout ends: every counter is given an expiry, and nobody who is locked
\* out prolongs it (throttle.record_failed_attempt).
LockoutEnds == \A n \in Username : is_throttled(n) ~> ~is_throttled(n)
=============================================================================
