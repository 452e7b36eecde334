------------------------------ MODULE JwtTokens ------------------------------
(***************************************************************************)
(* The JWT service of mads-common (jwt/): what PassportConfig accepts, the *)
(* key ring it is turned into, signing, and verification.                  *)
(*                                                                         *)
(* Key material is a number, 0 for none; a key pair shares one number.  A  *)
(* signature is the pair of the material and the algorithm it was made     *)
(* with.  Time is u64 seconds.                                             *)
(***************************************************************************)
EXTENDS Integers, SequencesExt

CONSTANT MaxSeconds      \* u64::MAX

ASSUME MaxSecondsAssumption == MaxSeconds \in Nat

Hmac == {"HS256", "HS384", "HS512"}
Asymmetric == {"RS256", "RS384", "RS512", "ES256", "ES384"}
Algorithms == Hmac \cup Asymmetric

None == "none"           \* an absent string
NoTime == -1             \* an absent timestamp
NoMaterial == 0

SaturatingAdd(a, b) == IF a + b > MaxSeconds THEN MaxSeconds ELSE a + b
SaturatingSub(a, b) == IF b > a THEN 0 ELSE a - b

-----------------------------------------------------------------------------
(***************************************************************************)
(* config.rs.  A field of a named key makes the whole configuration one of *)
(* named keys; a secret has a size the algorithm asks for; the active key  *)
(* can sign; and a private key belongs to its public key.                  *)
(***************************************************************************)
MinimumSecret(algorithm) ==
  CASE algorithm = "HS256" -> 32 [] algorithm = "HS384" -> 48 [] algorithm = "HS512" -> 64

Named(config) == config.active_key # None \/ DOMAIN config.keys # {}

SimpleAlgorithms(config) ==
  IF config.algorithms = <<>> THEN <<"HS256">> ELSE config.algorithms

SimpleAccepted(config) ==
  /\ config.secret.material # NoMaterial
  /\ Cardinality(ToSet(SimpleAlgorithms(config))) = 1        \* deduplicated
  /\ SimpleAlgorithms(config)[1] \in Hmac
  /\ config.secret.size >= MinimumSecret(SimpleAlgorithms(config)[1])

KeyAccepted(config, id) ==
  LET key == config.keys[id]
  IN  /\ key.algorithm \in ToSet(config.algorithms)
      /\ IF key.algorithm \in Hmac
         THEN /\ key.private_key = NoMaterial /\ key.public_key = NoMaterial
              /\ key.secret.material # NoMaterial
              /\ key.secret.size >= MinimumSecret(key.algorithm)
         ELSE /\ key.secret.material = NoMaterial
              /\ key.public_key # NoMaterial
              /\ id = config.active_key => key.private_key # NoMaterial
              /\ key.private_key \in {NoMaterial, key.public_key}

NamedAccepted(config) ==
  /\ config.secret.material = NoMaterial
  /\ config.algorithms # <<>> /\ IsInjective(config.algorithms)
  /\ ToSet(config.algorithms) \subseteq Algorithms
  /\ config.active_key \in DOMAIN config.keys
  /\ \A id \in DOMAIN config.keys : KeyAccepted(config, id)

ConfigAccepted(config) ==
  /\ IF Named(config) THEN NamedAccepted(config) ELSE SimpleAccepted(config)
  /\ config.max_token_bytes > 0

-----------------------------------------------------------------------------
(***************************************************************************)
(* keyring.rs: every configured key verifies, the active one signs.        *)
(***************************************************************************)
VerifyingMaterial(key) == IF key.algorithm \in Hmac THEN key.secret.material ELSE key.public_key
SigningMaterial(key) == IF key.algorithm \in Hmac THEN key.secret.material ELSE key.private_key

ActiveSigner(config) ==
  IF Named(config)
  THEN LET key == config.keys[config.active_key]
       IN  [material |-> SigningMaterial(key), algorithm |-> key.algorithm,
            key_id |-> config.active_key]
  ELSE [material |-> config.secret.material, algorithm |-> SimpleAlgorithms(config)[1],
        key_id |-> None]

NoVerifier == [material |-> NoMaterial, algorithm |-> None]

\* Seeded fault: a ring of named keys verifies with the active key alone.
VerifierActiveOnly(config, key_id) ==
  IF ~Named(config)
  THEN [material |-> config.secret.material, algorithm |-> SimpleAlgorithms(config)[1]]
  ELSE IF key_id = config.active_key
       THEN LET key == config.keys[key_id]
            IN  [material |-> VerifyingMaterial(key), algorithm |-> key.algorithm]
       ELSE NoVerifier

Verifier(config, key_id) ==
  IF ~Named(config)
  THEN [material |-> config.secret.material, algorithm |-> SimpleAlgorithms(config)[1]]
  ELSE IF key_id \in DOMAIN config.keys
       THEN LET key == config.keys[key_id]
            IN  [material |-> VerifyingMaterial(key), algorithm |-> key.algorithm]
       ELSE NoVerifier                    \* MissingKeyId, UnknownKeyId

-----------------------------------------------------------------------------
(***************************************************************************)
(* service.rs: sign() and verify().  The header names algorithm, key and   *)
(* type; the claims are the registered ones.                               *)
(***************************************************************************)
Signs(config, options, now) ==
  /\ options.lifetime > 0
  /\ now + options.lifetime <= MaxSeconds
  /\ ~options.reserved                    \* no custom claim with a registered name

Sign(config, options, now) ==
  LET signer == ActiveSigner(config)
  IN  [header |-> [algorithm |-> signer.algorithm, key_id |-> signer.key_id,
                   type |-> options.kind],
       signature |-> [material |-> signer.material, algorithm |-> signer.algorithm],
       size |-> options.size,
       claims |-> [issuer |-> config.issuer, audiences |-> config.audiences,
                   subject |-> options.subject, jwt_id |-> options.jwt_id,
                   expires_at |-> now + options.lifetime,
                   not_before |-> options.not_before, kind |-> options.kind]]

Expected(value, claimed) == value # None => claimed = value

Timely(config, claims, now) ==
  /\ claims.expires_at > SaturatingSub(now, config.clock_skew)
  /\ claims.not_before # NoTime =>
       claims.not_before <= SaturatingAdd(now, config.clock_skew)

ClaimsAccepted(config, header, claims, validation, now) ==
  /\ header.type = validation.kind /\ claims.kind = validation.kind
  /\ Timely(config, claims, now)
  /\ Expected(config.issuer, claims.issuer)
  /\ Expected(validation.issuer, claims.issuer)
  /\ config.audiences # {} => claims.audiences \cap config.audiences # {}
  /\ validation.audience # None => validation.audience \in claims.audiences
  /\ validation.subject_required => claims.subject # None
  /\ Expected(validation.subject, claims.subject)
  /\ validation.jwt_id_required => claims.jwt_id # None
  /\ Expected(validation.jwt_id, claims.jwt_id)

Verifies(config, token, validation, now) ==
  LET verifier == Verifier(config, token.header.key_id)
  IN  /\ token.size <= config.max_token_bytes
      /\ verifier # NoVerifier
      /\ token.header.algorithm = verifier.algorithm
      /\ token.signature = verifier
      /\ ClaimsAccepted(config, token.header, token.claims, validation, now)
=============================================================================
