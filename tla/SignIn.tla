-------------------------------- MODULE SignIn --------------------------------
(***************************************************************************)
(* The algorithms behind signing in: one-time codes of an authenticator    *)
(* app (totp.ts), recent re-authentication (step-up.ts), the OAuth2 client *)
(* (oauth2.ts) and stored password hashes (password.ts).  HMAC, SHA-256    *)
(* and random numbers are outside the code: a code is the pair of what it  *)
(* is computed from, a challenge the pair <<"S256", verifier>>.            *)
(***************************************************************************)
EXTENDS Values, Integers, Sequences, SequencesExt

CONSTANT WordSize   \* one more than the largest word of the bitwise operators (2^32)
ASSUME WordSizeAssumption == WordSize \in Nat \ {0} /\ WordSize % 8192 = 0

Word(n) == n % WordSize
(* 2^n for the shifts that occur. *)
Power(n) == <<1, 2, 4, 8, 16, 32, 64, 128, 256, 512, 1024, 2048, 4096>>[n + 1]
ShiftLeft(v, n) == Word(v * Power(n))
ShiftRight(v, n) == v \div Power(n)

Empty == [bits |-> 0, value |-> 0]

(* base32Encode: `bits` bits of `value` are not written yet; the higher    *)
(* ones were, and fall off the word.                                       *)
TakeByte(enc, byte) == [bits |-> enc.bits + 8, value |-> ShiftLeft(enc.value, 8) + byte]
CharOf(enc) == ShiftRight(enc.value, enc.bits - 5) % 32
(* The last character, of fewer than five bits. *)
Padded(enc) == ShiftLeft(enc.value, 5 - enc.bits) % 32

(* base32Decode, one character: a byte is written once there are eight     *)
(* bits; trailing bits that make no byte are dropped.                      *)
TakeChar(dec, index) ==
  LET bits == dec.bits + 5
      value == Word(ShiftLeft(dec.value, 5) + index) IN
  IF bits < 8 THEN [bits |-> bits, value |-> value, out |-> dec.out]
  ELSE [bits |-> bits - 8, value |-> value,
        out |-> Append(dec.out, ShiftRight(value, bits - 8) % 256)]

(* hotp: the counter is written as an unsigned integer, so a negative one  *)
(* throws.                                                                 *)
Hotp(key, counter) == <<key, counter>>
Counter(at, period) == at \div period

Code(key, at, period) == Hotp(key, Counter(at, period))

(* Mutant of Candidates: only earlier codes. *)
CandidatesPast(counter, window) == (counter - window)..counter
Candidates(counter, window) == (counter - window)..(counter + window)

(* verify: from the oldest counter on, until one matches. *)
Verify(key, token, at, period, window) ==
  LET tried == Candidates(Counter(at, period), window) IN
  IF \E c \in tried : c < 0 THEN "throws"
  ELSE IF \E c \in tried : Hotp(key, c) = token THEN "valid" ELSE "invalid"

-----------------------------------------------------------------------------
(* step-up.ts: the session bag keeps when the user last re-authenticated,  *)
(* and whom an operator impersonates.                                      *)
Elevate(bag, at) == [bag EXCEPT !.stepUpAt = at]
ClearElevation(bag) == [bag EXCEPT !.stepUpAt = None]
Impersonate(bag, target) == [bag EXCEPT !.impersonation = target]
StopImpersonation(bag) == [bag EXCEPT !.impersonation = None]

(* Mutant of RequireStepUp: no mark in the session passes. *)
RequireStepUpOpen(bag, now, within) ==
  bag.stepUpAt = None \/ now - bag.stepUpAt <= within
RequireStepUp(bag, now, within) ==
  bag.stepUpAt # None /\ now - bag.stepUpAt <= within

NewBag == [stepUpAt |-> None, impersonation |-> None]
AfterOperation(bag, o) ==
  CASE o.do = "elevate" -> Elevate(bag, o.at)
    [] o.do = "clear" -> ClearElevation(bag)
    [] o.do = "impersonate" -> Impersonate(bag, o.at)
    [] o.do = "stop" -> StopImpersonation(bag)

-----------------------------------------------------------------------------
(* oauth2.ts *)

Challenge(verifier) == <<"S256", verifier>>

(* createAuthorizationUrl: the caller's own parameters are set last. *)
AuthorizationUrl(options) ==
  LET base == [x \in {"state", "code_challenge"} |->
                 IF x = "state" THEN options.state ELSE Challenge(options.verifier)] IN
  [x \in DOMAIN base \cup DOMAIN options.params |->
     IF x \in DOMAIN options.params THEN options.params[x] ELSE base[x]]

(* tokenRequest: the client secret goes out in the header or in the body. *)
ClientAuth(config) ==
  [authorization |-> IF config.secret # "none" /\ config.clientAuth = "basic"
                     THEN config.secret ELSE "none",
   client_secret |-> IF config.secret # "none" /\ config.clientAuth # "basic"
                     THEN config.secret ELSE "none"]

(* exchangeCode and refreshToken *)
TokenRequest(config, grant) ==
  [authorization |-> ClientAuth(config).authorization,
   client_secret |-> ClientAuth(config).client_secret,
   code_verifier |-> IF grant.type = "code" THEN grant.verifier ELSE "none"]

(* tokenRequest's answer: a refused request throws with the description of *)
(* the error; a granted one is read leniently.                             *)
TokenAnswer(ok, json) ==
  IF ~ ok THEN [throws |-> CASE json.description # "none" -> json.description
                             [] json.error # "none" -> json.error
                             [] OTHER -> "status"]
  ELSE [accessToken |-> IF json.token = "none" THEN "" ELSE json.token]

(* What the authorization server checks (external, RFC 7636). *)
ServerAccepts(url, request) ==
  request.code_verifier # "none" /\ url["code_challenge"] = Challenge(request.code_verifier)

-----------------------------------------------------------------------------
(* password.ts: a hash names its algorithm; one that does not parse is None. *)
Algorithm(configured) == IF configured = "none" THEN "argon2id" ELSE configured
HashOf(configured, password) == [by |-> Algorithm(configured), of |-> password]
VerifyPassword(password, hash) == hash # None /\ hash.of = password
NeedsRehash(configured, hash) == hash = None \/ hash.by # Algorithm(configured)
=============================================================================
