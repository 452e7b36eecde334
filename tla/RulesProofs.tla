----------------------------- MODULE RulesProofs -----------------------------
(***************************************************************************)
(* Proofs about the rules that keep no state, for every input and not only *)
(* the cases of MCRules: JwtTokens, how long a token is accepted;          *)
(* SchemaDiff, what SchemaProofs shows, of the cases; Settings, what a     *)
(* configuration comes to and what an inspection says of it; CommandLine,  *)
(* which lines are accepted, what they stand for, and what is watched.     *)
(* And about Inspection, the protocol that delivers that report.           *)
(***************************************************************************)
EXTENDS MCRules, Inspection, SchemaProofs, TLAPS

(***************************************************************************)
(* JwtTokens, for any two configurations, any options of the token, any    *)
(* clock and any MaxSeconds.                                               *)
(***************************************************************************)
\* The times of a case are those of the u64 clock; beyond its kind, nothing is
\* asked of the token.
TokenCaseOK(case) ==
  /\ case.signed_at \in Nat
  /\ case.read_at \in 0 .. MaxSeconds
  /\ case.new.clock_skew \in 0 .. MaxSeconds
  /\ case.options.lifetime \in Nat
  /\ case.options.not_before \in 0 .. MaxSeconds \/ case.options.not_before = NoTime
  /\ case.validation = Validation(case.validation.kind)

\* Saturation at either end of u64 makes no difference to what is timely.
LEMMA TimelyWithinSkew ==
  ASSUME NEW case, TokenCaseOK(case), Signs(case.old, case.options, case.signed_at),
         NEW claims,
         claims.expires_at = case.signed_at + case.options.lifetime,
         claims.not_before = case.options.not_before
  PROVE  Timely(case.new, claims, case.read_at) <=>
           /\ case.read_at < case.signed_at + case.options.lifetime + case.new.clock_skew
           /\ case.options.not_before - case.new.clock_skew <= case.read_at
  <1>. DEFINE skew == case.new.clock_skew
              end == case.signed_at + case.options.lifetime
              start == case.options.not_before
              now == case.read_at
  <1>1. /\ now \in 0 .. MaxSeconds /\ skew \in 0 .. MaxSeconds
        /\ start \in 0 .. MaxSeconds \/ start = -1
        /\ end \in Nat /\ end > 0
        /\ MaxSeconds \in Nat
    BY MaxSecondsAssumption DEF TokenCaseOK, Signs, NoTime
  <1>2. end > SaturatingSub(now, skew) <=> now < end + skew
    <2>. HIDE DEF skew, end, now
    <2>. QED  BY <1>1 DEF SaturatingSub
  <1>3. (start # -1 => start <= SaturatingAdd(now, skew)) <=> start - skew <= now
    <2>. HIDE DEF skew, start, now
    <2>. QED  BY <1>1 DEF SaturatingAdd
  <1>. QED  BY <1>2, <1>3 DEF Timely, NoTime

\* An accepted configuration has no key without an algorithm of its own.
LEMMA KeysHaveAlgorithms ==
  ASSUME NEW config, ConfigAccepted(config)
  PROVE  IF Named(config)
         THEN \A id \in DOMAIN config.keys : config.keys[id].algorithm # None
         ELSE SimpleAlgorithms(config)[1] # None
  <1>1. CASE Named(config)
    <2>1. \A id \in DOMAIN config.keys : config.keys[id].algorithm \in Algorithms
      BY <1>1 DEF ConfigAccepted, NamedAccepted, KeyAccepted
    <2>. QED  BY <1>1, <2>1 DEF Algorithms, Hmac, Asymmetric, None
  <1>2. CASE ~Named(config)
    BY <1>2 DEF ConfigAccepted, SimpleAccepted, Hmac, None
  <1>. QED  BY <1>1, <1>2

\* What the ring of `config` verifies a token of `signer` with is the key that
\* made its signature.
SignedWith(config, signer) ==
  IF Named(config)
  THEN /\ signer.key_id \in DOMAIN config.keys
       /\ config.keys[signer.key_id].algorithm = signer.algorithm
       /\ VerifyingMaterial(config.keys[signer.key_id]) = signer.material
  ELSE config.secret.material = signer.material /\ SimpleAlgorithms(config)[1] = signer.algorithm

\* A signature is verified exactly by a ring that still has the key it was made
\* with, under the key id that the token names.
LEMMA RingVerifies ==
  ASSUME NEW config, ConfigAccepted(config), NEW signer
  PROVE  LET verifier == Verifier(config, signer.key_id)
         IN  (/\ verifier # NoVerifier
              /\ signer.algorithm = verifier.algorithm
              /\ [material |-> signer.material, algorithm |-> signer.algorithm] = verifier)
             <=> SignedWith(config, signer)
  <1>1. CASE ~Named(config)
    <2>1. Verifier(config, signer.key_id) =
            [material |-> config.secret.material, algorithm |-> SimpleAlgorithms(config)[1]]
      BY <1>1 DEF Verifier
    <2>2. SimpleAlgorithms(config)[1] # None
      BY <1>1, KeysHaveAlgorithms
    <2>. QED  BY <1>1, <2>1, <2>2 DEF SignedWith, NoVerifier
  <1>2. CASE Named(config) /\ signer.key_id \in DOMAIN config.keys
    <2>1. Verifier(config, signer.key_id) =
            [material |-> VerifyingMaterial(config.keys[signer.key_id]),
             algorithm |-> config.keys[signer.key_id].algorithm]
      BY <1>2 DEF Verifier
    <2>2. config.keys[signer.key_id].algorithm # None
      BY <1>2, KeysHaveAlgorithms
    <2>. QED  BY <1>2, <2>1, <2>2 DEF SignedWith, NoVerifier
  <1>3. CASE Named(config) /\ signer.key_id \notin DOMAIN config.keys
    BY <1>3 DEF Verifier, SignedWith
  <1>. QED  BY <1>1, <1>2, <1>3

\* A token of any accepted configuration verifies under any other one exactly
\* when the ring still has its key, it is of the kind asked for, the clock is
\* within its validity give or take the skew, and issuer and audience are still
\* the ones expected.
THEOREM TokensSurviveRotation ==
  ASSUME NEW case, TokenCaseOK(case), ConfigAccepted(case.old), ConfigAccepted(case.new),
         Signs(case.old, case.options, case.signed_at)
  PROVE  Verifies(case.new, Sign(case.old, case.options, case.signed_at), case.validation,
                  case.read_at) <=>
           /\ SignedWith(case.new, ActiveSigner(case.old))
           /\ case.options.kind = case.validation.kind
           /\ case.read_at < case.signed_at + case.options.lifetime + case.new.clock_skew
           /\ case.options.not_before - case.new.clock_skew <= case.read_at
           /\ case.new.issuer \in {None, case.old.issuer}
           /\ case.new.audiences = {} \/ case.new.audiences \cap case.old.audiences # {}
           /\ case.options.size <= case.new.max_token_bytes
  <1>. DEFINE token == Sign(case.old, case.options, case.signed_at)
              signer == ActiveSigner(case.old)
              verifier == Verifier(case.new, signer.key_id)
  <1>1. /\ token.header = [algorithm |-> signer.algorithm, key_id |-> signer.key_id,
                           type |-> case.options.kind]
        /\ token.signature = [material |-> signer.material, algorithm |-> signer.algorithm]
        /\ token.size = case.options.size
        /\ token.claims.issuer = case.old.issuer
        /\ token.claims.audiences = case.old.audiences
        /\ token.claims.expires_at = case.signed_at + case.options.lifetime
        /\ token.claims.not_before = case.options.not_before
        /\ token.claims.kind = case.options.kind
    BY DEF Sign
  <1>. HIDE DEF token, signer, verifier
  <1>2. Timely(case.new, token.claims, case.read_at) <=>
          /\ case.read_at < case.signed_at + case.options.lifetime + case.new.clock_skew
          /\ case.options.not_before - case.new.clock_skew <= case.read_at
    BY <1>1, TimelyWithinSkew
  <1>3. ClaimsAccepted(case.new, token.header, token.claims, case.validation, case.read_at) <=>
          /\ case.options.kind = case.validation.kind
          /\ Timely(case.new, token.claims, case.read_at)
          /\ case.new.issuer \in {None, case.old.issuer}
          /\ case.new.audiences = {} \/ case.new.audiences \cap case.old.audiences # {}
    <2>1. /\ case.validation.issuer = None /\ case.validation.audience = None
          /\ ~case.validation.subject_required /\ case.validation.subject = None
          /\ ~case.validation.jwt_id_required /\ case.validation.jwt_id = None
      BY DEF TokenCaseOK, Validation
    <2>2. Expected(case.new.issuer, token.claims.issuer) <=> case.new.issuer \in {None, case.old.issuer}
      BY <1>1 DEF Expected
    <2>3. (case.new.audiences # {} => token.claims.audiences \cap case.new.audiences # {}) <=>
            case.new.audiences = {} \/ case.new.audiences \cap case.old.audiences # {}
      BY <1>1
    <2>. QED  BY <1>1, <2>1, <2>2, <2>3 DEF ClaimsAccepted, Expected
  <1>4. (/\ verifier # NoVerifier
         /\ token.header.algorithm = verifier.algorithm
         /\ token.signature = verifier)
        <=> SignedWith(case.new, signer)
    BY <1>1, RingVerifies DEF verifier
  <1>5. token.header.key_id = signer.key_id
    BY <1>1
  <1>. QED  BY <1>1, <1>2, <1>3, <1>4, <1>5 DEF Verifies, verifier, token, signer

\* A behaviour asks one question, of the cases of its topic.
CaseOfTopic ==
  /\ topic = "diff" => input \in DiffCases
  /\ topic = "token" => input \in TokenCases
  /\ topic = "config" => input \in ConfigCases
  /\ topic = "inspection" => input \in InspectionCases
  /\ topic = "command" => input \in CommandCases
  /\ topic = "watch" => input \in WatchCases

\* Only questions about the cases are asked.
THEOREM QuestionsAreCases == Spec => []CaseOfTopic
  <1>1. Init => CaseOfTopic
    BY DEF Init, CaseOfTopic
  <1>2. CaseOfTopic /\ [Next]_vars => CaseOfTopic'
    BY DEF CaseOfTopic, Next, AskDiff, AskToken, AskConfig, AskInspection, AskCommand, AskWatch, vars
  <1>. QED  BY <1>1, <1>2, PTL DEF Spec

\* A token case has times of the u64 clock.
LEMMA TokenCasesTimed ==
  ASSUME NEW case \in TokenCases, MaxSeconds >= 10
  PROVE  TokenCaseOK(case)
  <1>1. PICK rotation \in Rotations, issuers \in Issuers, audiences \in Audiences, skew \in Skews,
             options \in Options, signed_at \in SigningTimes, read_at \in ReadingTimes,
             kind \in Kinds :
          case = [old |-> Policy(rotation[1], issuers[1], audiences[1], 0),
                  new |-> Policy(rotation[2], issuers[2], audiences[2], skew),
                  options |-> options, signed_at |-> signed_at, read_at |-> read_at,
                  validation |-> Validation(kind)]
    BY DEF TokenCases
  <1>2. /\ case.new.clock_skew \in {0, 2, MaxSeconds}
        /\ case.signed_at \in {0, 5, MaxSeconds - 1}
        /\ case.read_at \in {0, 3, 4, 5, 7, 8, 9, 10, MaxSeconds}
    BY <1>1 DEF Policy, Skews, SigningTimes, ReadingTimes
  <1>3. case.options.lifetime \in {0, 3} /\ case.options.not_before \in {NoTime, 7}
    BY <1>1 DEF Options
  <1>4. case.validation.kind = kind
    BY <1>1 DEF Validation
  <1>5. case.validation = Validation(case.validation.kind)
    BY <1>1, <1>4
  <1>. QED  BY <1>2, <1>3, <1>5, MaxSecondsAssumption DEF TokenCaseOK

\* A token outlives the rotation of the key that signed it for as long as that
\* key is configured, and no longer, for every u64 clock that reaches the times
\* of the cases.
THEOREM RotationsKeepTokens ==
  ASSUME MaxSeconds >= 10
  PROVE  Spec => []RotationKeepsTokens
  <1>1. CaseOfTopic => RotationKeepsTokens
    <2>. SUFFICES ASSUME CaseOfTopic, topic = "token",
                         ConfigAccepted(input.old), ConfigAccepted(input.new),
                         Signs(input.old, input.options, input.signed_at)
                  PROVE  RotationKeepsTokens
      BY DEF RotationKeepsTokens
    <2>1. TokenCaseOK(input)
      BY TokenCasesTimed DEF CaseOfTopic
    <2>. QED  BY <2>1, TokensSurviveRotation DEF RotationKeepsTokens, SignedWith
  <1>. QED  BY <1>1, QuestionsAreCases, PTL

-----------------------------------------------------------------------------
(***************************************************************************)
(* Schema differences: the cases are databases and source files.           *)
(***************************************************************************)

\* A case of the planner: files with declarations, a database that holds what it
\* can hold, and foreign keys to tables that are there.
DiffCaseOK(case) ==
  /\ FilesOK(case.files)
  /\ DatabaseOK(case.database)
  /\ \A name \in DOMAIN case.database.tables : Held(case.database.tables[name])
  /\ \A key \in case.database.foreign_keys : key.parent \in DOMAIN case.database.tables

\* Two sequences, one after the other.
LEMMA Joined ==
  ASSUME NEW S, NEW a \in Seq(S), NEW b \in Seq(S)
  PROVE  /\ a \o b \in Seq(S) /\ Len(a \o b) = Len(a) + Len(b)
         /\ \A k \in 1 .. Len(a) + Len(b) :
              (a \o b)[k] = IF k <= Len(a) THEN a[k] ELSE b[k - Len(a)]
  OBVIOUS

\* At most one column, of a name.
AtMostOne(s, S, name) ==
  s \in Seq(S) /\ Len(s) \in 0 .. 1 /\ \A k \in 1 .. Len(s) : s[k].name = name

\* None or one is at most one.
LEMMA NoneOrOne ==
  ASSUME NEW S, NEW s, NEW name, s = <<>> \/ \E y \in S : s = <<y>> /\ y.name = name
  PROVE  AtMostOne(s, S, name)
  <1>1. CASE s = <<>>
    <2>1. <<>> \in Seq(S) /\ Len(<<>>) = 0
      OBVIOUS
    <2>. QED  BY <1>1, <2>1 DEF AtMostOne
  <1>2. CASE s # <<>>
    <2>1. PICK y \in S : s = <<y>> /\ y.name = name
      BY <1>2
    <2>2. <<y>> \in Seq(S) /\ Len(<<y>>) = 1 /\ <<y>>[1] = y
      OBVIOUS
    <2>. QED  BY <2>1, <2>2 DEF AtMostOne
  <1>. QED  BY <1>1, <1>2

\* Columns of different names, of which the first one alone is an id.
InARow(columns, S, first) ==
  /\ columns \in Seq(S)
  /\ \A i, j \in 1 .. Len(columns) : columns[i].name = columns[j].name => i = j
  /\ \A i \in 1 .. Len(columns) : columns[i].name = "id" => columns[i] = first

\* The columns of a case one after the other: each name is there once.
LEMMA ThreeInARow ==
  ASSUME NEW S, NEW p, NEW s, NEW t, AtMostOne(p, S, "id"), Len(p) = 1,
         AtMostOne(s, S, "a"), AtMostOne(t, S, "b")
  PROVE  InARow(p \o s \o t, S, p[1])
  <1>. DEFINE q == p \o s
              all == q \o t
  <1>1. /\ p \in Seq(S) /\ s \in Seq(S) /\ t \in Seq(S)
        /\ Len(s) \in 0 .. 1 /\ Len(t) \in 0 .. 1 /\ p[1].name = "id"
        /\ Len(s) \in Nat /\ Len(s) <= 1
    BY DEF AtMostOne
  <1>2. /\ q \in Seq(S) /\ Len(q) = Len(p) + Len(s)
        /\ \A k \in 1 .. Len(p) + Len(s) : q[k] = IF k <= Len(p) THEN p[k] ELSE s[k - Len(p)]
    BY <1>1, Joined
  <1>. HIDE DEF q
  <1>3. /\ all \in Seq(S) /\ Len(all) = Len(q) + Len(t)
        /\ \A k \in 1 .. Len(q) + Len(t) : all[k] = IF k <= Len(q) THEN q[k] ELSE t[k - Len(q)]
    BY <1>1, <1>2, Joined
  <1>. HIDE DEF all
  <1>4. q[1] = p[1] /\ all[1] = p[1] /\ 1 \in 1 .. Len(all)
    BY <1>1, <1>2, <1>3
  <1>5. ASSUME NEW k \in 1 .. Len(all), k # 1, k <= Len(q) PROVE all[k].name = "a" /\ k = 2
    <2>1. all[k] = q[k] /\ k \in 1 .. Len(p) + Len(s)
      BY <1>1, <1>2, <1>3, <1>5
    <2>2. k - 1 \in 1 .. Len(s) /\ k = 2 /\ ~(k <= Len(p))
      <3>1. k \in 1 .. 1 + Len(s)
        BY <2>1
      <3>. QED  BY <1>1, <3>1, <1>5
    <2>3. q[k] = s[k - 1]
      BY <2>1, <2>2, <1>2
    <2>. QED  BY <2>1, <2>2, <2>3 DEF AtMostOne
  <1>6. ASSUME NEW k \in 1 .. Len(all), ~(k <= Len(q))
        PROVE  all[k].name = "b" /\ k = Len(q) + 1
    <2>1. all[k] = t[k - Len(q)] /\ k - Len(q) \in 1 .. Len(t) /\ k = Len(q) + 1
      BY <1>1, <1>2, <1>3, <1>6
    <2>. QED  BY <2>1 DEF AtMostOne
  <1>7. 1 <= Len(q)
    BY <1>1, <1>2
  <1>8. ASSUME NEW i \in 1 .. Len(all) PROVE all[i].name = "id" <=> i = 1
    <2>1. CASE i = 1
      BY <2>1, <1>1, <1>4
    <2>2. CASE i # 1
      <3>1. all[i].name \in {"a", "b"}
        BY <2>2, <1>5, <1>6
      <3>. QED  BY <3>1, <2>2
    <2>. QED  BY <2>1, <2>2
  <1>9. ASSUME NEW i \in 1 .. Len(all), NEW j \in 1 .. Len(all), all[i].name = all[j].name
        PROVE  i = j
    <2>1. i = 1 <=> j = 1
      BY <1>8, <1>9
    <2>2. CASE i # 1 /\ i <= Len(q)
      BY <2>1, <2>2, <1>5, <1>6, <1>9
    <2>3. CASE ~(i <= Len(q))
      BY <2>1, <2>3, <1>5, <1>6, <1>7, <1>9
    <2>. QED  BY <2>1, <2>2, <2>3
  <1>. QED  BY <1>3, <1>4, <1>8, <1>9 DEF InARow, all, q

\* A declared column is a name, a path and a length.
LEMMA DeclaredColumn ==
  ASSUME NEW name, NEW path, NEW length, name \in Texts, path \in Seq(Constructors), path # <<>>,
         length \in Nat
  PROVE  [name |-> name, path |-> path, max_length |-> length] \in DeclaredColumns
  BY DEF DeclaredColumns

\* The columns that are declared.
LEMMA DeclaredAs ==
  /\ IdDeclared \in DeclaredColumns /\ IdDeclared.name = "id"
  /\ \A s \in DeclaredA : s = <<>> \/ \E y \in DeclaredColumns : s = <<y>>
  /\ \A s \in DeclaredA : \A y : s = <<y>> => y.name = "a"
  /\ \A s \in DeclaredB : s = <<>> \/ \E y \in DeclaredColumns : s = <<y>>
  /\ \A s \in DeclaredB : \A y : s = <<y>> => y.name = "b"
  <1>1. /\ {"id", "a", "b"} \subseteq Texts
        /\ {"Nullable", "Array", "Integer", "Numeric", "Char", "Text", "VarChar", "Time"} \subseteq Constructors
        /\ Unlimited \in Nat /\ 5 \in Nat
    BY DEF Texts, Bases, Constructors, Unlimited
  <1>2. ASSUME NEW a \in Constructors, NEW b \in Constructors, NEW c \in Constructors
        PROVE  /\ <<a>> \in Seq(Constructors) /\ <<a>> # <<>>
               /\ <<a, b>> \in Seq(Constructors) /\ <<a, b>> # <<>>
               /\ <<a, b, c>> \in Seq(Constructors) /\ <<a, b, c>> # <<>>
    OBVIOUS
  <1>3. IdDeclared \in DeclaredColumns /\ IdDeclared.name = "id"
    <2>1. <<"Integer">> \in Seq(Constructors) /\ <<"Integer">> # <<>>
      BY <1>1, <1>2
    <2>. QED  BY <1>1, <2>1, DeclaredColumn DEF IdDeclared
  <1>. DEFINE PathsA == {<<"Integer">>, <<"Nullable", "Integer">>, <<"Numeric">>, <<"Char">>,
                         <<"Nullable", "Array", "Text">>, <<"Array", "Nullable", "Text">>,
                         <<"Array", "Array", "Text">>, <<"Time">>, <<"VarChar">>}
              PathsB == {<<"Text">>, <<"Nullable", "Text">>}
  <1>4. ASSUME NEW path \in PathsA \cup PathsB PROVE path \in Seq(Constructors) /\ path # <<>>
    <2>1. CASE path \in {<<"Integer">>, <<"Numeric">>, <<"Char">>, <<"VarChar">>, <<"Text">>, <<"Time">>}
      <3>1. PICK a \in Constructors : path = <<a>>
        BY <1>1, <2>1
      <3>. QED  BY <3>1, <1>2
    <2>2. CASE path \in {<<"Nullable", "Integer">>, <<"Nullable", "Text">>}
      <3>1. PICK a \in Constructors, b \in Constructors : path = <<a, b>>
        BY <1>1, <2>2
      <3>. QED  BY <3>1, <1>2
    <2>3. CASE path \in {<<"Nullable", "Array", "Text">>, <<"Array", "Nullable", "Text">>,
                         <<"Array", "Array", "Text">>}
      <3>1. PICK a \in Constructors, b \in Constructors, c \in Constructors : path = <<a, b, c>>
        BY <1>1, <2>3
      <3>. QED  BY <3>1, <1>2
    <2>. QED  BY <2>1, <2>2, <2>3
  <1>5. ASSUME NEW s \in DeclaredA
        PROVE  s = <<>> \/ \E path \in PathsA, length \in {Unlimited, 5} :
                             s = <<[name |-> "a", path |-> path, max_length |-> length]>>
    BY DEF DeclaredA, Declare
  <1>6. ASSUME NEW s \in DeclaredB
        PROVE  s = <<>> \/ \E path \in PathsB :
                             s = <<[name |-> "b", path |-> path, max_length |-> Unlimited]>>
    BY DEF DeclaredB, Declare
  <1>. HIDE DEF PathsA, PathsB
  <1>7. ASSUME NEW s \in DeclaredA, s # <<>>
        PROVE  \E y \in DeclaredColumns : s = <<y>> /\ y.name = "a"
    <2>1. PICK path \in PathsA, length \in {Unlimited, 5} :
            s = <<[name |-> "a", path |-> path, max_length |-> length]>>
      BY <1>5, <1>7
    <2>2. [name |-> "a", path |-> path, max_length |-> length] \in DeclaredColumns
      BY <1>1, <1>4, DeclaredColumn
    <2>. QED  BY <2>1, <2>2
  <1>8. ASSUME NEW s \in DeclaredB, s # <<>>
        PROVE  \E y \in DeclaredColumns : s = <<y>> /\ y.name = "b"
    <2>1. PICK path \in PathsB :
            s = <<[name |-> "b", path |-> path, max_length |-> Unlimited]>>
      BY <1>6, <1>8
    <2>2. [name |-> "b", path |-> path, max_length |-> Unlimited] \in DeclaredColumns
      BY <1>1, <1>4, DeclaredColumn
    <2>. QED  BY <2>1, <2>2
  <1>9. ASSUME NEW y, NEW z, <<y>> = <<z>> PROVE y = z
    BY <1>9
  <1>. QED  BY <1>3, <1>7, <1>8, <1>9

\* A type without a dimension is stored as it is.
LEMMA PlainType ==
  ASSUME NEW type, NEW base \in {"Integer", "PreciseNumeric", "Text", "Timestamp"},
         type = [base |-> base, length |-> Unlimited, dims |-> 0]
  PROVE  type \in Types /\ StoredType(type) = type
  <1>1. base \in Texts /\ Unlimited \in Nat
    BY DEF Texts, Bases, Unlimited
  <1>2. type \in Types
    BY <1>1 DEF Types
  <1>3. type.dims = 0 /\ type.base # "Char"
    OBVIOUS
  <1>5. type.dims <= 1
    BY <1>3
  <1>. QED  BY <1>2, <1>3, <1>5, StoredAsIs

\* The columns that are stored.
LEMMA StoredAs ==
  /\ IdStored \in Columns /\ IdStored.name = "id" /\ IdStored.nullable = FALSE
  /\ StoredType(IdStored.type) = IdStored.type
  /\ \A s \in StoredA \cup StoredB : s = <<>> \/
       \E y \in Columns : s = <<y>> /\ StoredType(y.type) = y.type /\ y.name # "id"
  /\ \A s \in StoredA : \A y : s = <<y>> => y.name = "a"
  /\ \A s \in StoredB : \A y : s = <<y>> => y.name = "b"
  <1>1. ASSUME NEW name \in {"id", "a", "b"}, NEW base \in {"Integer", "PreciseNumeric", "Text", "Timestamp"},
               NEW nullable \in BOOLEAN, NEW ordinal \in Nat
        PROVE  LET x == Stores(name, base, nullable, ordinal)
               IN  /\ x \in Columns /\ x.name = name /\ x.nullable = nullable
                   /\ StoredType(x.type) = x.type
    <2>. DEFINE type == [base |-> base, length |-> Unlimited, dims |-> 0]
    <2>1. type \in Types /\ StoredType(type) = type /\ name \in Texts
      BY PlainType DEF Texts
    <2>5. Stores(name, base, nullable, ordinal)
            = [name |-> name, type |-> type, nullable |-> nullable, ordinal |-> ordinal]
      BY DEF Stores, type
    <2>. HIDE DEF type
    <2>. QED  BY <2>1, <2>5 DEF Columns
  <1>2. /\ IdStored \in Columns /\ IdStored.name = "id" /\ IdStored.nullable = FALSE
        /\ StoredType(IdStored.type) = IdStored.type
    BY <1>1 DEF IdStored
  <1>3. ASSUME NEW s \in StoredA, s # <<>>
        PROVE  \E y \in Columns : s = <<y>> /\ StoredType(y.type) = y.type /\ y.name = "a"
    <2>1. PICK base \in {"Integer", "PreciseNumeric", "Text", "Timestamp"}, nullable \in BOOLEAN :
            s = <<Stores("a", base, nullable, 2)>>
      BY <1>3 DEF StoredA
    <2>. QED  BY <2>1, <1>1
  <1>4. ASSUME NEW s \in StoredB, s # <<>>
        PROVE  \E y \in Columns : s = <<y>> /\ StoredType(y.type) = y.type /\ y.name = "b"
    <2>1. PICK nullable \in BOOLEAN : s = <<Stores("b", "Text", nullable, 3)>>
      BY <1>4 DEF StoredB
    <2>. QED  BY <2>1, <1>1
  <1>5. ASSUME NEW y, NEW z, <<y>> = <<z>> PROVE y = z
    BY <1>5
  <1>. QED  BY <1>2, <1>3, <1>4, <1>5

\* Any four elements.
LEMMA FourFinite ==
  ASSUME NEW a, NEW b, NEW c, NEW d
  PROVE  IsFiniteSet({a, b, c, d})
  <1>1. IsFiniteSet({a}) /\ IsFiniteSet({b}) /\ IsFiniteSet({c}) /\ IsFiniteSet({d})
    BY FS_Singleton
  <1>2. IsFiniteSet({a} \cup {b})
    BY <1>1, FS_Union
  <1>3. IsFiniteSet({c} \cup {d})
    BY <1>1, FS_Union
  <1>4. IsFiniteSet(({a} \cup {b}) \cup ({c} \cup {d}))
    BY <1>2, <1>3, FS_Union
  <1>5. {a, b, c, d} = ({a} \cup {b}) \cup ({c} \cup {d})
    OBVIOUS
  <1>. QED  BY <1>4, <1>5

\* The names of the tables of the cases.
LEMMA TableNames == {A, B, C, Audit} \subseteq Nat \X Nat /\ IsFiniteSet({A, B, C, Audit})
  <1>1. {A, B, C, Audit} \subseteq Nat \X Nat
    BY DEF A, B, C, Audit
  <1>. QED  BY <1>1, FourFinite

\* A finite set is listed in some order.
LEMMA SetListed ==
  ASSUME NEW S, IsFiniteSet(S)
  PROVE  SetToSeq(S) \in Seq(ToSet(SetToSeq(S))) /\ ToSet(SetToSeq(S)) \subseteq S
  <1>. DEFINE n == Cardinality(S)
              s == SetToSeq(S)
  <1>1. n \in Nat /\ ExistsBijection(1 .. n, S)
    BY FS_CardinalityType
  <1>2. \E f \in [1 .. n -> S] : IsInjective(f)
    <2>1. PICK f \in Bijection(1 .. n, S) : TRUE
      BY <1>1 DEF ExistsBijection
    <2>2. f \in [1 .. n -> S] /\ \A x, y \in 1 .. n : f[x] = f[y] => x = y
      BY <2>1 DEF Bijection, Injection, IsInjective
    <2>. QED  BY <2>2 DEF IsInjective
  <1>3. s \in [1 .. n -> S]
    BY <1>2 DEF SetToSeq
  <1>. HIDE DEF s
  <1>4. DOMAIN s = 1 .. n /\ s = [i \in 1 .. n |-> s[i]] /\ \A i \in 1 .. n : s[i] \in S
    BY <1>3
  <1>5. ToSet(s) = {s[i] : i \in 1 .. n}
    BY <1>4 DEF ToSet
  <1>6. ToSet(s) \subseteq S
    BY <1>4, <1>5
  <1>7. \A i \in 1 .. n : s[i] \in ToSet(s)
    BY <1>5
  <1>8. s \in [1 .. n -> ToSet(s)]
    BY <1>4, <1>7
  <1>9. s \in Seq(ToSet(s))
    BY <1>1, <1>8
  <1>. QED  BY <1>6, <1>9 DEF s

\* A file of one declaration.
FileOK(source) ==
  /\ source.declarations \in Seq(ToSet(source.declarations))
  /\ \A declaration \in ToSet(source.declarations) : TableDeclared(declaration)

\* One element, listed.
LEMMA OneListed ==
  ASSUME NEW x
  PROVE  ToSet(<<x>>) = {x} /\ <<x>> \in Seq(ToSet(<<x>>))
  <1>1. <<x>> \in Seq({x}) /\ ToSet(<<x>>) = {x}
    BY DEF ToSet
  <1>. QED  BY <1>1

\* The file of a table.
LEMMA FileOfTable ==
  ASSUME NEW name \in Nat \X Nat, NEW columns \in Seq(DeclaredColumns),
         \A i, j \in 1 .. Len(columns) : columns[i].name = columns[j].name => i = j
  PROVE  FileOK(Source(<<Declaration(name, columns)>>))
  <1>. DEFINE declaration == Declaration(name, columns)
  <1>1. declaration.name = name /\ declaration.columns = columns
    BY DEF Declaration
  <1>2. TableDeclared(declaration)
    BY <1>1 DEF TableDeclared
  <1>. HIDE DEF declaration
  <1>3. Source(<<declaration>>).declarations = <<declaration>>
    BY DEF Source
  <1>. QED  BY <1>2, <1>3, OneListed DEF FileOK, declaration

\* A table of the database.
LEMMA TableHeld ==
  ASSUME NEW table, NEW columns, table = [columns |-> columns, primary_key |-> <<"id">>],
         columns \in Seq(Columns),
         \A i, j \in 1 .. Len(columns) : columns[i].name = columns[j].name => i = j,
         \A i \in 1 .. Len(columns) : columns[i].name = "id" => columns[i].nullable = FALSE,
         \A i \in 1 .. Len(columns) : StoredType(columns[i].type) = columns[i].type
  PROVE  TableOK(table) /\ Held(table)
  <1>1. table.columns = columns /\ table.primary_key = <<"id">>
    OBVIOUS
  <1>2. TableOK(table)
    BY <1>1 DEF TableOK
  <1>3. ToSet(table.primary_key) = {"id"}
    BY <1>1, OneListed
  <1>4. \A x \in ToSet(columns) : \E i \in 1 .. Len(columns) : x = columns[i]
    BY DEF ToSet
  <1>. QED  BY <1>1, <1>2, <1>3, <1>4 DEF Held

\* Tables, each of which is held.
LEMMA DatabaseHeld ==
  ASSUME NEW names \in SUBSET {A, B, C, Audit}, NEW table, TableOK(table), Held(table),
         NEW database, "tables" \in DOMAIN database,
         database.tables = [name \in names |-> table]
  PROVE  /\ DatabaseOK(database) /\ DOMAIN database.tables = names
         /\ \A name \in DOMAIN database.tables : Held(database.tables[name])
  <1>1. names \subseteq Nat \X Nat /\ IsFiniteSet(names)
    BY TableNames, FS_Subset
  <1>. DEFINE tables == database.tables
  <1>2. /\ DOMAIN tables = names /\ \A name \in names : tables[name] = table
        /\ tables = [name \in DOMAIN tables |-> tables[name]]
    OBVIOUS
  <1>3. TablesOK(tables)
    BY <1>2 DEF TablesOK
  <1>. QED  BY <1>1, <1>2, <1>3 DEF DatabaseOK

\* A case of one table, whose columns come, go and change.
LEMMA ColumnCaseOK ==
  ASSUME NEW case \in ColumnCases
  PROVE  DiffCaseOK(case)
  <1>1. PICK da \in DeclaredA, db \in DeclaredB, sa \in StoredA, sb \in StoredB,
             objects \in {{}, {[kind |-> "check", table |-> A, columns |-> {"a", "b"}]},
                          {[kind |-> "trigger", table |-> A, columns |-> {}]}} :
          case = ColumnCase(da, db, sa, sb, objects)
    BY DEF ColumnCases
  <1>. DEFINE p == <<IdDeclared>>
              r == <<IdStored>>
              declared == p \o da \o db
              stored == r \o sa \o sb
              table == [columns |-> stored, primary_key |-> <<"id">>]
              source == Source(<<Declaration(A, declared)>>)
  <1>2. A \in Nat \X Nat /\ {A} \subseteq {A, B, C, Audit}
    BY TableNames
  <1>3. /\ declared \in Seq(DeclaredColumns)
        /\ \A i, j \in 1 .. Len(declared) : declared[i].name = declared[j].name => i = j
    <2>1. AtMostOne(p, DeclaredColumns, "id") /\ Len(p) = 1
      BY NoneOrOne, DeclaredAs
    <2>2. da = <<>> \/ \E y \in DeclaredColumns : da = <<y>> /\ y.name = "a"
      BY DeclaredAs
    <2>3. db = <<>> \/ \E y \in DeclaredColumns : db = <<y>> /\ y.name = "b"
      BY DeclaredAs
    <2>4. AtMostOne(da, DeclaredColumns, "a")
      BY <2>2, NoneOrOne
    <2>5. AtMostOne(db, DeclaredColumns, "b")
      BY <2>3, NoneOrOne
    <2>. HIDE DEF p
    <2>6. InARow(declared, DeclaredColumns, p[1])
      BY <2>1, <2>4, <2>5, ThreeInARow
    <2>. QED  BY <2>6 DEF InARow
  <1>4. /\ stored \in Seq(Columns)
        /\ \A i, j \in 1 .. Len(stored) : stored[i].name = stored[j].name => i = j
        /\ \A i \in 1 .. Len(stored) : stored[i].name = "id" => stored[i] = IdStored
    <2>1. AtMostOne(r, Columns, "id") /\ Len(r) = 1 /\ r[1] = IdStored
      BY NoneOrOne, StoredAs
    <2>2. sa = <<>> \/ \E y \in Columns : sa = <<y>> /\ y.name = "a"
      BY StoredAs
    <2>3. sb = <<>> \/ \E y \in Columns : sb = <<y>> /\ y.name = "b"
      BY StoredAs
    <2>4. AtMostOne(sa, Columns, "a")
      BY <2>2, NoneOrOne
    <2>5. AtMostOne(sb, Columns, "b")
      BY <2>3, NoneOrOne
    <2>. HIDE DEF r
    <2>6. InARow(stored, Columns, r[1])
      BY <2>1, <2>4, <2>5, ThreeInARow
    <2>. QED  BY <2>1, <2>6 DEF InARow
  <1>5. \A i \in 1 .. Len(stored) : StoredType(stored[i].type) = stored[i].type
    <2>. DEFINE S == {x \in Columns : StoredType(x.type) = x.type}
    <2>1. IdStored \in S
      BY StoredAs
    <2>2. sa = <<>> \/ \E y \in S : sa = <<y>> /\ y.name = "a"
      BY StoredAs
    <2>3. sb = <<>> \/ \E y \in S : sb = <<y>> /\ y.name = "b"
      BY StoredAs
    <2>. HIDE DEF S
    <2>4. AtMostOne(r, S, "id") /\ Len(r) = 1
      BY <2>1, NoneOrOne, StoredAs
    <2>5. AtMostOne(sa, S, "a")
      BY <2>2, NoneOrOne
    <2>6. AtMostOne(sb, S, "b")
      BY <2>3, NoneOrOne
    <2>. HIDE DEF r
    <2>7. stored \in Seq(S)
      BY <2>4, <2>5, <2>6, ThreeInARow DEF InARow
    <2>8. \A i \in 1 .. Len(stored) : stored[i] \in S
      BY <2>7
    <2>. QED  BY <2>8 DEF S
  <1>. HIDE DEF declared, stored
  <1>6. TableOK(table) /\ Held(table)
    <2>1. \A i \in 1 .. Len(stored) : stored[i].name = "id" => stored[i].nullable = FALSE
      BY <1>4, StoredAs
    <2>. QED  BY <1>4, <1>5, <2>1, TableHeld
  <1>7. FileOK(source)
    BY <1>2, <1>3, FileOfTable
  <1>. HIDE DEF table, source
  <1>8. /\ case.files = <<source>>
        /\ "tables" \in DOMAIN case.database /\ case.database.tables = [name \in {A} |-> table]
        /\ case.database.foreign_keys = {}
    BY <1>1 DEF ColumnCase, declared, stored, table, source
  <1>9. FilesOK(case.files)
    BY <1>7, <1>8, OneListed DEF FilesOK, FileOK
  <1>10. /\ DatabaseOK(case.database)
         /\ \A name \in DOMAIN case.database.tables : Held(case.database.tables[name])
    BY <1>2, <1>6, <1>8, DatabaseHeld
  <1>. QED  BY <1>8, <1>9, <1>10 DEF DiffCaseOK

\* A case of several tables, with foreign keys between them.
LEMMA TableCaseOK ==
  ASSUME NEW case \in TableCases
  PROVE  DiffCaseOK(case)
  <1>1. PICK declared \in SUBSET {A, B, C, Audit}, stored \in SUBSET {A, B, C, Audit},
             keys \in SUBSET {Key(A, B), Key(B, A), Key(C, A), Key(Audit, A), Key(A, A)} :
          case = TableCase(declared, stored, keys)
    BY DEF TableCases
  <1>. DEFINE file(name) == Source(<<Declaration(name, <<IdDeclared>>)>>)
              sources == {file(name) : name \in declared}
              table == [columns |-> <<IdStored>>, primary_key |-> <<"id">>]
  <1>2. \A name \in declared : FileOK(file(name))
    <2>1. IdDeclared \in DeclaredColumns
      BY DeclaredAs
    <2>2. /\ <<IdDeclared>> \in Seq(DeclaredColumns)
          /\ \A i, j \in 1 .. Len(<<IdDeclared>>) : i = j
      BY <2>1
    <2>. QED  BY <2>2, TableNames, FileOfTable
  <1>3. IsFiniteSet(sources)
    <2>1. sources \subseteq {file(A), file(B), file(C), file(Audit)}
      OBVIOUS
    <2>. HIDE DEF file, sources
    <2>2. IsFiniteSet({file(A), file(B), file(C), file(Audit)})
      BY FourFinite
    <2>. QED  BY <2>1, <2>2, FS_Subset
  <1>4. TableOK(table) /\ Held(table)
    <2>1. IdStored \in Columns /\ IdStored.nullable = FALSE /\ StoredType(IdStored.type) = IdStored.type
      BY StoredAs
    <2>2. /\ <<IdStored>> \in Seq(Columns)
          /\ \A i, j \in 1 .. Len(<<IdStored>>) : i = j
          /\ \A i \in 1 .. Len(<<IdStored>>) : <<IdStored>>[i] = IdStored
      BY <2>1
    <2>. QED  BY <2>1, <2>2, TableHeld
  <1>5. \A source \in sources : FileOK(source)
    BY <1>2
  <1>. HIDE DEF sources, table
  <1>6. /\ case.files = SetToSeq(sources)
        /\ "tables" \in DOMAIN case.database /\ case.database.tables = [name \in stored |-> table]
        /\ case.database.foreign_keys = {key \in keys : {key.child, key.parent} \subseteq stored}
    BY <1>1 DEF TableCase, sources, table
  <1>7. FilesOK(case.files)
    <2>1. /\ case.files \in Seq(ToSet(case.files))
          /\ ToSet(case.files) \subseteq sources
      BY <1>3, <1>6, SetListed
    <2>. QED  BY <2>1, <1>5 DEF FilesOK, FileOK
  <1>8. /\ DatabaseOK(case.database) /\ DOMAIN case.database.tables = stored
        /\ \A name \in DOMAIN case.database.tables : Held(case.database.tables[name])
    BY <1>4, <1>6, DatabaseHeld
  <1>. QED  BY <1>6, <1>7, <1>8 DEF DiffCaseOK

\* A migration that is planned does what it was generated for.
THEOREM MigrationsExact == Spec => []MigrationsAreExact
  <1>1. CaseOfTopic => MigrationsAreExact
    <2>. SUFFICES ASSUME CaseOfTopic, Planned, Storable, ForeignToPlan = {},
                         Independent(PlannedUp, input.database, KeysNow)
                  PROVE  MigrationsAreExact
      BY DEF MigrationsAreExact
    <2>1. DiffCaseOK(input)
      BY ColumnCaseOK, TableCaseOK DEF CaseOfTopic, Planned, DiffCases
    <2>2. KeysNow = input.database.foreign_keys
      BY DEF ForeignToPlan, KeysNow, LiveForeignKeys
    <2>3. /\ SchemaOK(Desired)
          /\ \A name \in DOMAIN Desired :
               \A x \in ToSet(Desired[name].columns) : CatalogType(x.type) = x.type
      BY <2>1, DesiredOK DEF DiffCaseOK, Planned, Desired
    <2>4. \A name \in DOMAIN Desired : Settled(Desired[name])
      BY <2>3, StorableSettled DEF Storable, SchemaOK
    <2>5. /\ DatabaseOK(input.database)
          /\ \A name \in DOMAIN input.database.tables : Held(input.database.tables[name])
          /\ \A key \in KeysNow : key.parent \in DOMAIN input.database.tables
      BY <2>1, <2>2 DEF DiffCaseOK
    <2>6. PlanAccepted(LiveTables(input.database, Namespaces(Desired)), Desired, KeysNow)
      BY DEF Planned, LiveNow
    <2>8. Independent(Up(LiveTables(input.database, Namespaces(Desired)), Desired, KeysNow),
                      input.database, KeysNow)
      BY DEF PlannedUp, LiveNow
    <2>7. Exact(input.database, Desired, KeysNow)
      BY <2>3, <2>4, <2>5, <2>6, <2>8, PlansExact
    <2>. QED  BY <2>2, <2>7 DEF Exact, MigrationsAreExact, PlannedUp, LiveNow
  <1>. QED  BY <1>1, QuestionsAreCases, PTL

\* Nothing that is lost or touched goes unmentioned.
THEOREM LossesWarned == Spec => []LossesAreWarned
  <1>1. CaseOfTopic => LossesAreWarned
    <2>. SUFFICES ASSUME CaseOfTopic, Planned PROVE LossesAreWarned
      BY DEF LossesAreWarned
    <2>1. DiffCaseOK(input)
      BY ColumnCaseOK, TableCaseOK DEF CaseOfTopic, Planned, DiffCases
    <2>2. SchemaOK(Desired) /\ DatabaseOK(input.database)
      BY <2>1, DesiredOK DEF DiffCaseOK, Planned, Desired
    <2>3. PlanAccepted(LiveTables(input.database, Namespaces(Desired)), Desired,
                       LiveForeignKeys(input.database, Namespaces(Desired)))
      BY DEF Planned, LiveNow, KeysNow
    <2>4. Warned(input.database, Desired, {"id", "a", "b"})
      BY <2>2, <2>3, PlanWarns
    <2>. QED  BY <2>4 DEF Warned, LossesAreWarned, PlannedUp, LiveNow, KeysNow
  <1>. QED  BY <1>1, QuestionsAreCases, PTL

-----------------------------------------------------------------------------
(***************************************************************************)
(* Configuration: the fold over the two standard sources, unfolded.        *)
(***************************************************************************)
\* The accumulator of the fold, on each set of positions.
FoldsTwo(iter, first, second) ==
  iter = [s \in SUBSET DOMAIN <<first, second>> |->
            IF s = {} THEN NoDocument
            ELSE Merge(iter[s \ {Max(s)}], <<first, second>>[Max(s)])]

\* The last position of each set of them.
LEMMA LastOfTwo == Max({1}) = 1 /\ Max({2}) = 2 /\ Max({1, 2}) = 2
  <1>1. \A S : S \in {{1}, {2}, {1, 2}} => Max(S) \in S /\ \A n \in S : Max(S) >= n
    BY DEF Max
  <1>. QED  BY <1>1

\* Such an accumulator exists, so that the fold is what its equation says.
LEMMA FoldOfTwoExists ==
  ASSUME NEW first, NEW second
  PROVE  \E iter : FoldsTwo(iter, first, second)
  <1>. DEFINE one == Merge(NoDocument, first)
              two == Merge(NoDocument, second)
              both == Merge(one, second)
              iter == [s \in SUBSET {1, 2} |->
                         IF s = {} THEN NoDocument
                         ELSE IF s = {1} THEN one ELSE IF s = {2} THEN two ELSE both]
              Step(s) == IF s = {} THEN NoDocument
                         ELSE Merge(iter[s \ {Max(s)}], <<first, second>>[Max(s)])
  <1>1. DOMAIN <<first, second>> = {1, 2}
    OBVIOUS
  <1>2. iter[{}] = NoDocument /\ iter[{1}] = one /\ iter[{2}] = two /\ iter[{1, 2}] = both
    OBVIOUS
  <1>3. \A s \in SUBSET {1, 2} : s \in {{}, {1}, {2}, {1, 2}}
    OBVIOUS
  <1>4. \A s \in SUBSET {1, 2} : iter[s] = Step(s)
    <2>. SUFFICES ASSUME NEW s \in SUBSET {1, 2} PROVE iter[s] = Step(s)
      OBVIOUS
    <2>. HIDE DEF iter
    <2>1. CASE s = {}
      BY <2>1, <1>2
    <2>2. CASE s = {1}
      <3>1. s \ {Max(s)} = {} /\ <<first, second>>[Max(s)] = first /\ s # {}
        BY <2>2, LastOfTwo
      <3>. QED  BY <3>1, <2>2, <1>2
    <2>3. CASE s = {2}
      <3>1. s \ {Max(s)} = {} /\ <<first, second>>[Max(s)] = second /\ s # {}
        BY <2>3, LastOfTwo
      <3>. QED  BY <3>1, <2>3, <1>2
    <2>4. CASE s = {1, 2}
      <3>1. s \ {Max(s)} = {1} /\ <<first, second>>[Max(s)] = second /\ s # {}
        BY <2>4, LastOfTwo
      <3>. QED  BY <3>1, <2>4, <1>2
    <2>. QED  BY <1>3, <2>1, <2>2, <2>3, <2>4
  <1>5. iter = [s \in SUBSET {1, 2} |-> iter[s]]
    OBVIOUS
  <1>. HIDE DEF iter
  <1>6. iter = [s \in SUBSET {1, 2} |-> Step(s)]
    BY <1>4, <1>5
  <1>. QED  BY <1>1, <1>6 DEF FoldsTwo

\* The standard sources are merged one after the other.
LEMMA FoldOfTwo ==
  ASSUME NEW first, NEW second
  PROVE  FoldLeft(Merge, NoDocument, <<first, second>>) = Merge(Merge(NoDocument, first), second)
  <1>. DEFINE iter == CHOOSE f : FoldsTwo(f, first, second)
  <1>1. FoldLeft(Merge, NoDocument, <<first, second>>) = iter[DOMAIN <<first, second>>]
    BY DEF FoldLeft, MapThenFoldSet, FoldsTwo
  <1>2. FoldsTwo(iter, first, second)
    BY FoldOfTwoExists
  <1>. HIDE DEF iter
  <1>3. \A s \in SUBSET {1, 2} :
          iter[s] = IF s = {} THEN NoDocument
                    ELSE Merge(iter[s \ {Max(s)}], <<first, second>>[Max(s)])
    <2>1. DOMAIN <<first, second>> = {1, 2}
      OBVIOUS
    <2>. QED  BY <1>2, <2>1 DEF FoldsTwo
  <1>4. iter[{}] = NoDocument
    BY <1>3
  <1>5. iter[{1}] = Merge(NoDocument, first)
    <2>1. {1} \ {Max({1})} = {} /\ <<first, second>>[Max({1})] = first
      BY LastOfTwo
    <2>. QED  BY <1>3, <1>4, <2>1
  <1>6. iter[{1, 2}] = Merge(Merge(NoDocument, first), second)
    <2>1. {1, 2} \ {Max({1, 2})} = {1} /\ <<first, second>>[Max({1, 2})] = second
      BY LastOfTwo
    <2>. QED  BY <1>3, <1>5, <2>1
  <1>7. DOMAIN <<first, second>> = {1, 2}
    OBVIOUS
  <1>. QED  BY <1>1, <1>6, <1>7

\* What the merged configuration holds: the scalars of the environment over
\* those of the document, and the arrays that no scalar replaces.
LEMMA MergedDocument ==
  ASSUME NEW sources, NEW process
  PROVE  LET config   == Merged(sources, process)
             document == TomlDocument(sources.toml)
             set      == process.settings
         IN  /\ config.scalars =
                  [key \in (DOMAIN set) \cup (DOMAIN document.scalars) |->
                     IF key \in DOMAIN set
                     THEN [value |-> set[key], origin |-> "environment"]
                     ELSE [value |-> document.scalars[key], origin |-> "mads.toml"]]
             /\ config.arrays =
                  [key \in (DOMAIN document.arrays) \ DOMAIN set |->
                     [value |-> document.arrays[key], origin |-> "mads.toml"]]
  <1>. DEFINE config   == Merged(sources, process)
              document == TomlDocument(sources.toml)
              set      == process.settings
              first    == [name |-> "mads.toml", document |-> document]
              second   == [name |-> "environment", document |-> EnvironmentDocument(process)]
              toml     == Merge(NoDocument, first)
              environment == EnvironmentDocument(process)
  <1>1. config = Merge(toml, second)
    BY FoldOfTwo DEF Merged, StandardSources
  <1>2. environment.scalars = set /\ environment.arrays = <<>>
    BY DEF EnvironmentDocument, NoDocument
  <1>3. NoDocument.scalars = <<>> /\ NoDocument.arrays = <<>> /\ DOMAIN <<>> = {}
    BY DEF NoDocument
  <1>. HIDE DEF document, set, config
  <1>4. /\ toml.scalars = Over(Owned(document.scalars, "mads.toml"),
                               Without(<<>>, DOMAIN document.arrays))
        /\ toml.arrays = Over(Owned(document.arrays, "mads.toml"),
                              Without(<<>>, DOMAIN document.scalars))
    BY <1>3 DEF Merge
  <1>5. /\ toml.scalars = [key \in DOMAIN document.scalars |->
                             [value |-> document.scalars[key], origin |-> "mads.toml"]]
        /\ toml.arrays = [key \in DOMAIN document.arrays |->
                             [value |-> document.arrays[key], origin |-> "mads.toml"]]
    BY <1>3, <1>4 DEF Over, Without, Owned
  <1>. HIDE DEF toml, environment
  <1>6. /\ config.scalars = Over(Owned(set, "environment"), Without(toml.scalars, DOMAIN <<>>))
        /\ config.arrays = Over(Owned(<<>>, "environment"), Without(toml.arrays, DOMAIN set))
    BY <1>1, <1>2 DEF Merge, environment
  <1>7. Without(toml.scalars, DOMAIN <<>>) = toml.scalars
    BY <1>3, <1>5 DEF Without
  <1>8. Owned(<<>>, "environment") = <<>>
    BY <1>3 DEF Owned
  <1>9. config.scalars =
          [key \in (DOMAIN set) \cup (DOMAIN document.scalars) |->
             IF key \in DOMAIN set THEN [value |-> set[key], origin |-> "environment"]
             ELSE [value |-> document.scalars[key], origin |-> "mads.toml"]]
    BY <1>5, <1>6, <1>7 DEF Over, Owned
  <1>10. config.arrays =
           [key \in (DOMAIN document.arrays) \ DOMAIN set |->
              [value |-> document.arrays[key], origin |-> "mads.toml"]]
    BY <1>3, <1>5, <1>6, <1>8 DEF Over, Without
  <1>. QED  BY <1>9, <1>10 DEF config, document, set

\* No key has two shapes.
LEMMA OneShape ==
  ASSUME NEW sources, NEW process, NEW key,
         HasScalar(LoadedConfig(sources, process), key)
  PROVE  ~HasArray(LoadedConfig(sources, process), key)
  <1>. DEFINE document == TomlDocument(sources.toml)
  <1>1. (DOMAIN document.scalars) \cap (DOMAIN document.arrays) = {}
    BY DEF TomlDocument, NoDocument
  <1>. DEFINE merged == Merged(sources, process)
              set    == process.settings
  <1>2. /\ merged.scalars =
             [k \in (DOMAIN set) \cup (DOMAIN document.scalars) |->
                IF k \in DOMAIN set THEN [value |-> set[k], origin |-> "environment"]
                ELSE [value |-> document.scalars[k], origin |-> "mads.toml"]]
        /\ merged.arrays =
             [k \in (DOMAIN document.arrays) \ DOMAIN set |->
                [value |-> document.arrays[k], origin |-> "mads.toml"]]
    BY MergedDocument
  <1>3. /\ DOMAIN LoadedConfig(sources, process).scalars = DOMAIN merged.scalars
        /\ DOMAIN LoadedConfig(sources, process).arrays = DOMAIN merged.arrays
    BY DEF LoadedConfig, Interpolated
  <1>. HIDE DEF document, merged, set
  <1>4. /\ DOMAIN merged.scalars = (DOMAIN set) \cup (DOMAIN document.scalars)
        /\ DOMAIN merged.arrays = (DOMAIN document.arrays) \ DOMAIN set
    BY <1>2
  <1>. QED  BY <1>1, <1>3, <1>4 DEF HasScalar, HasArray

-----------------------------------------------------------------------------
\* The sources of a case: the file is absent, malformed, or a document of
\* scalars, arrays of strings and dates; the dotenv file likewise.
SourcesOK(sources) ==
  /\ sources.toml.state \in {"absent", "malformed", "parsed"}
  /\ sources.toml.state = "parsed" =>
       \A key \in DOMAIN sources.toml.entries :
         sources.toml.entries[key].kind \in {"scalar", "array", "datetime"}
  /\ sources.dotenv.state \in {"absent", "malformed", "parsed"}

\* What a key ends up as is the value of the last source that sets it, in the
\* shape it has there, for any file, environment and variables.
LEMMA LastSourceWins ==
  ASSUME SourcesOK(input.files)
  PROVE  LaterSourcesWin
  <1>. DEFINE sources   == input.files
              process == input.process
              merged  == Merged(sources, process)
              config  == LoadedConfig(sources, process)
              toml    == IF sources.toml.state = "parsed" THEN sources.toml.entries ELSE <<>>
              dotenv  == IF sources.dotenv.state = "parsed" THEN sources.dotenv.variables ELSE <<>>
              set     == process.settings
              variables == Variables(sources, process)
              Known(v)  == v.variable => v.text \in (DOMAIN process.variables) \cup DOMAIN dotenv
              Value(v)  == IF ~v.variable THEN v.text
                           ELSE IF v.text \in DOMAIN process.variables
                                THEN process.variables[v.text] ELSE dotenv[v.text]
              kept    == (DOMAIN toml) \ DOMAIN set
              readable == /\ sources.toml.state # "malformed" /\ sources.dotenv.state # "malformed"
                          /\ \A key \in DOMAIN toml : toml[key].kind # "datetime"
              resolved == /\ \A key \in DOMAIN set : Known(set[key])
                          /\ \A key \in kept :
                               IF toml[key].kind = "array"
                               THEN \A i \in DOMAIN toml[key].value : Known(toml[key].value[i])
                               ELSE Known(toml[key].value)
  <1>1. readable <=> sources.dotenv.state \in {"absent", "parsed"} /\ TomlLoads(sources.toml)
    <2>1. CASE sources.toml.state = "parsed"
      <3>1. toml = sources.toml.entries
        BY <2>1
      <3>2. \A key \in DOMAIN toml : toml[key].kind # "datetime" <=> ~Unsupported(toml[key])
        BY <2>1, <3>1 DEF SourcesOK, Unsupported
      <3>. HIDE DEF toml
      <3>. QED  BY <2>1, <3>1, <3>2 DEF SourcesOK, TomlLoads
    <2>2. CASE sources.toml.state # "parsed"
      BY <2>2 DEF SourcesOK, TomlLoads
    <2>. QED  BY <2>1, <2>2
  <1>2. ASSUME readable
        PROVE  /\ DOMAIN merged.scalars = (DOMAIN set) \cup {key \in kept : toml[key].kind = "scalar"}
               /\ DOMAIN merged.arrays = {key \in kept : toml[key].kind = "array"}
               /\ \A key \in DOMAIN set :
                    merged.scalars[key] = [value |-> set[key], origin |-> "environment"]
               /\ \A key \in kept :
                    IF toml[key].kind = "array"
                    THEN merged.arrays[key] = [value |-> toml[key].value, origin |-> "mads.toml"]
                    ELSE merged.scalars[key] = [value |-> toml[key].value, origin |-> "mads.toml"]
    <2>. DEFINE document == TomlDocument(sources.toml)
    <2>1. /\ document.scalars = [key \in {k \in DOMAIN toml : toml[k].kind = "scalar"} |-> toml[key].value]
          /\ document.arrays = [key \in {k \in DOMAIN toml : toml[k].kind = "array"} |-> toml[key].value]
      <3>1. CASE sources.toml.state = "parsed"
        BY <3>1 DEF TomlDocument
      <3>2. CASE sources.toml.state = "absent"
        BY <3>2 DEF TomlDocument, NoDocument
      <3>. QED  BY <1>2, <3>1, <3>2 DEF SourcesOK
    <2>2. \A key \in DOMAIN toml : toml[key].kind \in {"scalar", "array"}
      BY <1>2 DEF SourcesOK
    <2>3. /\ merged.scalars =
               [key \in (DOMAIN set) \cup (DOMAIN document.scalars) |->
                  IF key \in DOMAIN set THEN [value |-> set[key], origin |-> "environment"]
                  ELSE [value |-> document.scalars[key], origin |-> "mads.toml"]]
          /\ merged.arrays =
               [key \in (DOMAIN document.arrays) \ DOMAIN set |->
                  [value |-> document.arrays[key], origin |-> "mads.toml"]]
      BY MergedDocument
    <2>. HIDE DEF merged, set, document, toml
    <2>. QED  BY <2>1, <2>2, <2>3
  <1>3. ASSUME sources.dotenv.state # "malformed"
        PROVE  /\ \A v : Defined(v, variables) <=> Known(v)
               /\ \A v : Known(v) => Resolved(v, variables) = Value(v)
    <2>1. variables = Over(process.variables, dotenv)
      BY <1>3 DEF Variables, SourcesOK
    <2>. HIDE DEF variables, dotenv
    <2>2. /\ DOMAIN variables = (DOMAIN process.variables) \cup DOMAIN dotenv
          /\ \A name \in DOMAIN variables :
               variables[name] = IF name \in DOMAIN process.variables
                                 THEN process.variables[name] ELSE dotenv[name]
      BY <2>1 DEF Over
    <2>. QED  BY <2>2 DEF Defined, Resolved
  <1>. HIDE DEF sources, process, merged, toml, dotenv, set, variables
  <1>4. ASSUME readable
        PROVE  (\A value \in Used(merged) : Defined(value, variables)) <=> resolved
    <2>1. \A v : Defined(v, variables) <=> Known(v)
      BY <1>3, <1>4
    <2>2. (\A value \in Used(merged) : Known(value)) <=>
            /\ \A key \in DOMAIN merged.scalars : Known(merged.scalars[key].value)
            /\ \A key \in DOMAIN merged.arrays : \A i \in DOMAIN merged.arrays[key].value :
                 Known(merged.arrays[key].value[i])
      <3>. HIDE DEF Known
      <3>. QED  BY DEF Used, ToSet
    <2>. HIDE DEF Known
    <2>3. \A key \in kept : toml[key].kind \in {"scalar", "array"}
      BY <1>4 DEF SourcesOK, toml, sources
    <2>4. (\A key \in DOMAIN merged.scalars : Known(merged.scalars[key].value)) <=>
            /\ \A key \in DOMAIN set : Known(set[key])
            /\ \A key \in kept : toml[key].kind = "scalar" => Known(toml[key].value)
      <3>. HIDE DEF kept, readable
      <3>1. ASSUME NEW key \in DOMAIN set
            PROVE  merged.scalars[key].value = set[key]
        <4>1. merged.scalars[key] = [value |-> set[key], origin |-> "environment"]
          BY <1>2, <1>4
        <4>. QED  BY <4>1
      <3>2. ASSUME NEW key \in kept, toml[key].kind = "scalar"
            PROVE  merged.scalars[key].value = toml[key].value
        <4>1. merged.scalars[key] = [value |-> toml[key].value, origin |-> "mads.toml"]
          BY <1>2, <1>4, <3>2
        <4>. QED  BY <4>1
      <3>3. DOMAIN merged.scalars = (DOMAIN set) \cup {key \in kept : toml[key].kind = "scalar"}
        BY <1>2, <1>4
      <3>. QED  BY <3>1, <3>2, <3>3
    <2>5. (\A key \in DOMAIN merged.arrays : \A i \in DOMAIN merged.arrays[key].value :
             Known(merged.arrays[key].value[i])) <=>
            \A key \in kept : toml[key].kind = "array" =>
              \A i \in DOMAIN toml[key].value : Known(toml[key].value[i])
      <3>. HIDE DEF kept, readable
      <3>1. ASSUME NEW key \in kept, toml[key].kind = "array"
            PROVE  merged.arrays[key].value = toml[key].value
        <4>1. merged.arrays[key] = [value |-> toml[key].value, origin |-> "mads.toml"]
          BY <1>2, <1>4, <3>1
        <4>. QED  BY <4>1
      <3>2. DOMAIN merged.arrays = {key \in kept : toml[key].kind = "array"}
        BY <1>2, <1>4
      <3>. QED  BY <3>1, <3>2
    <2>6. resolved <=>
            /\ \A key \in DOMAIN set : Known(set[key])
            /\ \A key \in kept : toml[key].kind = "scalar" => Known(toml[key].value)
            /\ \A key \in kept : toml[key].kind = "array" =>
                 \A i \in DOMAIN toml[key].value : Known(toml[key].value[i])
      <3>. HIDE DEF kept
      <3>. QED  BY <2>3
    <2>. HIDE DEF resolved
    <2>. QED  BY <2>1, <2>2, <2>4, <2>5, <2>6
  <1>5. ConfigLoads(sources, process) <=> readable /\ resolved
    <2>. HIDE DEF readable, resolved
    <2>. QED  BY <1>1, <1>4 DEF ConfigLoads, merged, variables
  <1>6. ASSUME readable, resolved
        PROVE  /\ \A key : HasArray(config, key) <=> key \in kept /\ toml[key].kind = "array"
               /\ \A key : HasScalar(config, key) <=>
                             key \in DOMAIN set \/ (key \in kept /\ toml[key].kind = "scalar")
               /\ \A key \in DOMAIN set :
                    config.scalars[key] = [value |-> Value(set[key]), origin |-> "environment"]
               /\ \A key \in kept :
                    IF toml[key].kind = "array"
                    THEN ArrayOf(config, key) = [i \in DOMAIN toml[key].value |-> Value(toml[key].value[i])]
                    ELSE config.scalars[key] = [value |-> Value(toml[key].value), origin |-> "mads.toml"]
    <2>1. \A v : Known(v) => Resolved(v, variables) = Value(v)
      BY <1>3, <1>6
    <2>2. config = Interpolated(merged, variables)
      BY DEF LoadedConfig, merged, variables
    <2>. HIDE DEF config, Known, Value
    <2>3. /\ DOMAIN config.scalars = DOMAIN merged.scalars
          /\ DOMAIN config.arrays = DOMAIN merged.arrays
          /\ \A key \in DOMAIN merged.scalars :
               config.scalars[key] = [merged.scalars[key] EXCEPT !.value = Resolved(@, variables)]
          /\ \A key \in DOMAIN merged.arrays :
               config.arrays[key] = [merged.arrays[key] EXCEPT
                                       !.value = [i \in DOMAIN @ |-> Resolved(@[i], variables)]]
      BY <2>2 DEF Interpolated
    <2>4. \A key \in kept : toml[key].kind \in {"scalar", "array"}
      BY <1>6 DEF SourcesOK, toml, sources
    <2>5. \A key \in DOMAIN set :
            config.scalars[key] = [value |-> Value(set[key]), origin |-> "environment"]
      <3>. SUFFICES ASSUME NEW key \in DOMAIN set
                    PROVE  config.scalars[key] = [value |-> Value(set[key]), origin |-> "environment"]
        OBVIOUS
      <3>1. /\ key \in DOMAIN merged.scalars
            /\ merged.scalars[key] = [value |-> set[key], origin |-> "environment"]
        BY <1>2, <1>6
      <3>2. Resolved(set[key], variables) = Value(set[key])
        BY <1>6, <2>1
      <3>. QED  BY <2>3, <3>1, <3>2
    <2>6. ASSUME NEW key \in kept
          PROVE  IF toml[key].kind = "array"
                 THEN ArrayOf(config, key) = [i \in DOMAIN toml[key].value |-> Value(toml[key].value[i])]
                 ELSE config.scalars[key] = [value |-> Value(toml[key].value), origin |-> "mads.toml"]
      <3>1. CASE toml[key].kind = "array"
        <4>1. merged.arrays[key] = [value |-> toml[key].value, origin |-> "mads.toml"]
          BY <1>2, <1>6, <3>1
        <4>2. key \in DOMAIN merged.arrays
          BY <1>2, <1>6, <3>1
        <4>3. ArrayOf(config, key) = [i \in DOMAIN toml[key].value |-> Resolved(toml[key].value[i], variables)]
          <5>. DEFINE value == toml[key].value
          <5>1. config.arrays[key] = [merged.arrays[key] EXCEPT
                                        !.value = [i \in DOMAIN @ |-> Resolved(@[i], variables)]]
            BY <2>3, <4>2
          <5>. HIDE DEF value
          <5>2. merged.arrays[key] = [value |-> value, origin |-> "mads.toml"]
            BY <4>1 DEF value
          <5>3. config.arrays[key].value = [i \in DOMAIN value |-> Resolved(value[i], variables)]
            BY <5>1, <5>2
          <5>. QED  BY <5>3 DEF ArrayOf, value
        <4>4. \A i \in DOMAIN toml[key].value : Known(toml[key].value[i])
          BY <1>6, <3>1
        <4>. QED  BY <2>1, <3>1, <4>3, <4>4
      <3>2. CASE toml[key].kind = "scalar"
        <4>1. key \in DOMAIN merged.scalars
              /\ merged.scalars[key] = [value |-> toml[key].value, origin |-> "mads.toml"]
          BY <1>2, <1>6, <3>2
        <4>2. Known(toml[key].value)
          BY <1>6, <3>2
        <4>. QED  BY <2>1, <2>3, <3>2, <4>1, <4>2
      <3>. QED  BY <2>4, <3>1, <3>2
    <2>. QED  BY <1>2, <1>6, <2>3, <2>4, <2>5, <2>6 DEF HasArray, HasScalar
  <1>. QED  BY <1>5, <1>6 DEF LaterSourcesWin, sources, process, toml, dotenv, set

\* The sources of a configuration case are sources.
LEMMA ConfigCasesAreSources ==
  ASSUME NEW case \in ConfigCases
  PROVE  SourcesOK(case.files)
  <1>. DEFINE Tomls == {Absent, [state |-> "malformed"]}
                         \cup {Toml(entries, {"server"}) : entries \in Partial(TwoKeys, Entries)}
              Dotenvs == {Absent, [state |-> "malformed"], Dotenv([PORT |-> "1", VERB |-> "put"])}
  <1>1. case.files.toml \in Tomls /\ case.files.dotenv \in Dotenvs
    <2>. HIDE DEF Tomls, Dotenvs
    <2>1. PICK toml \in Tomls, dotenv \in Dotenvs, settings \in Partial(TwoKeys, Settable),
               variables \in Partial({"PORT"}, {"2"}) :
            case = [files |-> [toml |-> toml, dotenv |-> dotenv],
                    process |-> [settings |-> settings, variables |-> variables]]
      BY DEF ConfigCases, Tomls, Dotenvs
    <2>. QED  BY <2>1
  <1>2. case.files.dotenv.state \in {"absent", "malformed", "parsed"}
    BY <1>1 DEF Absent, Dotenv
  <1>3. \A entries \in Partial(TwoKeys, Entries) : \A key \in DOMAIN entries :
          entries[key].kind \in {"scalar", "array", "datetime"}
    <2>1. \A entries \in Partial(TwoKeys, Entries) : \A key \in DOMAIN entries : entries[key] \in Entries
      BY DEF Partial
    <2>2. \A entry \in Entries : entry.kind \in {"scalar", "array", "datetime"}
      BY DEF Entries, Entry
    <2>. QED  BY <2>1, <2>2
  <1>4. CASE case.files.toml \in {Absent, [state |-> "malformed"]}
    BY <1>2, <1>4 DEF SourcesOK, Absent
  <1>5. CASE case.files.toml \notin {Absent, [state |-> "malformed"]}
    <2>1. PICK entries \in Partial(TwoKeys, Entries) : case.files.toml = Toml(entries, {"server"})
      BY <1>1, <1>5
    <2>2. case.files.toml.state = "parsed" /\ case.files.toml.entries = entries
      BY <2>1 DEF Toml
    <2>. QED  BY <1>2, <1>3, <2>2 DEF SourcesOK
  <1>. QED  BY <1>4, <1>5

\* What a key ends up as is the value of the last source that sets it.
THEOREM LastSourcesWin == Spec => []LaterSourcesWin
  <1>1. CaseOfTopic => LaterSourcesWin
    <2>. SUFFICES ASSUME CaseOfTopic, topic = "config" PROVE LaterSourcesWin
      BY DEF LaterSourcesWin
    <2>. QED  BY ConfigCasesAreSources, LastSourceWins DEF CaseOfTopic
  <1>. QED  BY <1>1, QuestionsAreCases, PTL

-----------------------------------------------------------------------------
(***************************************************************************)
(* The report of an inspection, for any application and configuration.     *)
(***************************************************************************)
\* A default that failed is a diagnostic of the analysis.
LEMMA FailedDefaults ==
  ASSUME NEW app, NEW config, app.root
  PROVE  LET analysis == Analysis(app, config, TRUE)
         IN  /\ analysis.modules
             /\ analysis.diagnostics = {} <=>
                  app.graph /\ \A default \in Official : analysis.decisions[default] # "failed"
             /\ DOMAIN analysis.decisions = Official
  BY DEF Analysis, Evaluated, Official

\* A group of defaults fails only with one of them.
LEMMA GroupFails ==
  ASSUME NEW decisions, NEW defaults, Group(decisions, defaults) = "FAILED"
  PROVE  \E default \in defaults \cap DOMAIN decisions : decisions[default] = "failed"
  BY DEF Group

\* The rows of mads doctor fail exactly with a diagnostic.
LEMMA RowsAndDiagnostics ==
  ASSUME NEW app, NEW sources, NEW process
  PROVE  LET report == Inspect(app, sources, process)
         IN  /\ (\E group \in DOMAIN report.checks : report.checks[group] = "FAILED")
                  <=> report.diagnostics # {}
             /\ report.failed <=> report.diagnostics # {}
  <1>. DEFINE config_ok == ConfigLoads(sources, process)
              config    == IF config_ok THEN LoadedConfig(sources, process) ELSE NoDocument
              analysis  == Analysis(app, config, TRUE)
              route_ok  == analysis.modules => app.routes # "invalid"
              guard_ok  == analysis.modules => app.guards # "invalid"
              diagnostics == (IF config_ok THEN {} ELSE {"configuration"}) \cup analysis.diagnostics
                               \cup (IF route_ok THEN {} ELSE {"routes"})
                               \cup (IF guard_ok THEN {} ELSE {"guards"})
              checks    == DoctorChecks(config_ok, analysis, route_ok, guard_ok)
              report    == Inspect(app, sources, process)
  <1>1. /\ report.checks = checks /\ report.diagnostics = diagnostics
        /\ report.failed = (diagnostics # {} \/ "FAILED" \in {checks[group] : group \in DOMAIN checks})
    BY DEF Inspect
  <1>2. ~analysis.modules \/ Group(analysis.decisions, {"server", "cors"}) = "FAILED"
          \/ Group(analysis.decisions, Official) = "FAILED"
        => analysis.diagnostics # {}
    <2>. HIDE DEF config
    <2>1. CASE app.root
      <3>1. /\ analysis.modules
            /\ DOMAIN analysis.decisions = Official
            /\ analysis.diagnostics = {} <=>
                 app.graph /\ \A default \in Official : analysis.decisions[default] # "failed"
        BY <2>1, FailedDefaults
      <3>2. ASSUME NEW defaults, Group(analysis.decisions, defaults) = "FAILED"
            PROVE  analysis.diagnostics # {}
        <4>. HIDE DEF analysis
        <4>1. PICK default \in defaults \cap DOMAIN analysis.decisions :
                analysis.decisions[default] = "failed"
          BY <3>2, GroupFails
        <4>. QED  BY <3>1, <4>1
      <3>. HIDE DEF analysis
      <3>. QED  BY <3>1, <3>2
    <2>2. CASE ~app.root
      BY <2>2 DEF Analysis
    <2>. QED  BY <2>1, <2>2
  <1>3. diagnostics # {} <=> ~config_ok \/ analysis.diagnostics # {} \/ ~route_ok \/ ~guard_ok
    <2>. HIDE DEF config_ok, analysis, route_ok, guard_ok
    <2>. QED  OBVIOUS
  <1>4. (\E group \in DOMAIN checks : checks[group] = "FAILED") <=> diagnostics # {}
    <2>. HIDE DEF config_ok, analysis, route_ok, guard_ok, diagnostics
    <2>1. /\ DOMAIN checks = {"configuration", "modules", "providers", "routes", "guards", "server",
                              "defaults"}
          /\ checks["configuration"] = "FAILED" <=> ~config_ok
          /\ checks["modules"] = "FAILED" <=> ~analysis.modules
          /\ checks["providers"] = "FAILED" <=> analysis.diagnostics # {}
          /\ checks["routes"] = "FAILED" <=> ~route_ok
          /\ checks["guards"] = "FAILED" <=> ~guard_ok
          /\ checks["server"] = Group(analysis.decisions, {"server", "cors"})
          /\ checks["defaults"] = Group(analysis.decisions, Official)
      BY DEF DoctorChecks, CheckFor, PlanReady
    <2>. HIDE DEF checks
    <2>. QED  BY <1>2, <1>3, <2>1
  <1>. HIDE DEF checks, diagnostics, report
  <1>. QED  BY <1>1, <1>4 DEF report

\* Cross-origin settings that are accepted do not make the layer panic.
LEMMA AcceptedCorsIsLayered ==
  ASSUME NEW sources, NEW process, CorsAccepted(LoadedConfig(sources, process))
  PROVE  ~CorsLayerPanics(LoadedConfig(sources, process))
  <1>1. HasArray(LoadedConfig(sources, process), "server.cors.methods")
    BY DEF CorsAccepted, ListAccepted
  <1>2. ~Wildcard(LoadedConfig(sources, process), "server.cors.methods")
    BY <1>1, OneShape DEF Wildcard
  <1>. QED  BY <1>2 DEF CorsAccepted, CorsLayerPanics

\* An application with a route is prepared to serve exactly when the inspection
\* finds no fault with it and its constructors succeed.
THEOREM InspectionForetells ==
  ASSUME NEW app, NEW sources, NEW process, app.routes \in {"valid", "invalid"}
  PROVE  StandardRunPrepares(app, sources, process) <=>
           app.constructs /\ ~Inspect(app, sources, process).failed
  <1>. DEFINE config   == LoadedConfig(sources, process)
              analysis == Analysis(app, config, TRUE)
              report   == Inspect(app, sources, process)
  <1>1. CASE ~ConfigLoads(sources, process)
    <2>1. "configuration" \in report.diagnostics
      BY <1>1 DEF Inspect
    <2>. QED  BY <1>1, <2>1, RowsAndDiagnostics DEF StandardRunPrepares
  <1>2. CASE ConfigLoads(sources, process) /\ ~app.root
    <2>1. "modules" \in report.diagnostics /\ analysis.diagnostics = {"modules"}
      BY <1>2 DEF Inspect, Analysis
    <2>. QED  BY <2>1, RowsAndDiagnostics DEF StandardRunPrepares, PlanReady
  <1>3. CASE ConfigLoads(sources, process) /\ app.root
    <2>1. analysis.modules
      BY <1>3, FailedDefaults
    <2>2. report.diagnostics = {} <=>
            analysis.diagnostics = {} /\ app.routes # "invalid" /\ app.guards # "invalid"
      BY <1>3, <2>1 DEF Inspect
    <2>3. ASSUME analysis.diagnostics = {}
          PROVE  /\ analysis.decisions["server"] = "active"
                 /\ analysis.decisions["cors"] = "active" => ~CorsLayerPanics(config)
      <3>1. \A default \in {"server", "cors"} : analysis.decisions[default] # "failed"
        BY <1>3, <2>3, FailedDefaults DEF Official
      <3>2. /\ analysis.decisions["server"] = ServerEvaluation(app, config, TRUE)
            /\ analysis.decisions["cors"] = CorsEvaluation(app, config, TRUE)
        BY <1>3 DEF Analysis, Evaluated, Official
      <3>3. analysis.decisions["server"] = "active"
        BY <3>1, <3>2 DEF ServerEvaluation
      <3>4. analysis.decisions["cors"] = "active" => CorsAccepted(config)
        BY <3>2 DEF CorsEvaluation
      <3>. QED  BY <3>3, <3>4, AcceptedCorsIsLayered
    <2>4. report.failed <=> report.diagnostics # {}
      BY RowsAndDiagnostics
    <2>. QED  BY <1>3, <2>2, <2>3, <2>4 DEF StandardRunPrepares, PlanReady
  <1>. QED  BY <1>1, <1>2, <1>3

\* An inspection case has an application whose constructors succeed.
LEMMA InspectionCasesConstruct ==
  ASSUME NEW case \in InspectionCases
  PROVE  case.app.constructs = TRUE /\ case.app.routes \in {"none", "valid", "invalid"}
  <1>1. PICK app \in Applications, setting \in SettingCases : case = [app |-> app, case |-> setting]
    BY DEF InspectionCases
  <1>2. \A any \in Applications : any.constructs = TRUE /\ any.routes \in {"none", "valid", "invalid"}
    BY DEF Applications
  <1>. QED  BY <1>1, <1>2

\* What an inspection reports is true: of the run it foretells, and of itself.
THEOREM InspectionsAreTruthful == Spec => []InspectionIsTruthful
  <1>1. CaseOfTopic => InspectionForetellsRun
    <2>. SUFFICES ASSUME CaseOfTopic, topic = "inspection", input.app.routes # "none"
                  PROVE  StandardRunPrepares(input.app, input.case.files, input.case.process)
                           <=> ~Inspect(input.app, input.case.files, input.case.process).failed
      BY DEF InspectionForetellsRun
    <2>1. input.app.constructs = TRUE /\ input.app.routes \in {"valid", "invalid"}
      BY InspectionCasesConstruct DEF CaseOfTopic
    <2>2. StandardRunPrepares(input.app, input.case.files, input.case.process) <=>
            input.app.constructs /\ ~Inspect(input.app, input.case.files, input.case.process).failed
      BY <2>1, InspectionForetells
    <2>. QED  BY <2>1, <2>2
  <1>2. FailuresAreDiagnosed
    BY RowsAndDiagnostics DEF FailuresAreDiagnosed
  <1>3. CaseOfTopic => InspectionIsTruthful
    BY <1>1, <1>2 DEF InspectionIsTruthful
  <1>. QED  BY <1>3, QuestionsAreCases, PTL

-----------------------------------------------------------------------------
(***************************************************************************)
(* The protocol that delivers an inspection: a file for the answer, a      *)
(* child that writes it, a caller that reads it.                           *)
(***************************************************************************)
\* What the file, the child and the caller hold.
InspectionTypeOK ==
  /\ cli \in Looks \cup {"prepare", "terminate", "return", "returned"}
  /\ late \in BOOLEAN /\ directory \in BOOLEAN /\ failure \in BOOLEAN
  /\ result \in Results
  /\ program \in Programs
  /\ child \in Alive \cup Ended \cup {"none"}
  /\ ack \in Contents /\ response \in Contents
  /\ temporary \in {0, 1}

(***************************************************************************)
(* The inductive invariant: what each step of inspect_application has      *)
(* established about the child and the files, and what a standard          *)
(* application's files can hold.                                           *)
(***************************************************************************)
DirectoryIsEmpty == directory = FALSE /\ ack = "absent" /\ response = "absent" /\ temporary = 0

CliSteps ==
  /\ cli = "prepare" => child = "none" /\ DirectoryIsEmpty
  /\ cli \in {"return", "returned"} => child \notin Alive
  /\ cli = "returned" => DirectoryIsEmpty
  /\ result # "pending" => cli \in {"terminate", "return", "returned"}
  /\ result = "report" => child = "succeeded" /\ cli # "terminate"

\* What is published stays published while the CLI looks.
StandardFiles ==
  program = "standard" =>
    /\ ack \in {"absent", "good"} /\ response \in {"absent", "good"}
    /\ cli \in {"report file", "report child", "report clock", "exit child", "exit clock"}
         => ack = "good"
    /\ cli \in {"exit child", "exit clock"} => response = "good"

InspectionInv ==
  InspectionTypeOK /\ CliSteps /\ StandardFiles /\ StandardAnswerIsAccepted

\* A step of the application is a step of a child that is alive, and leaves the
\* CLI where it is.
LEMMA ApplicationMoves ==
  ASSUME InspectionTypeOK, Application
  PROVE  /\ child \in Alive /\ child' \in Alive \cup Ended
         /\ UNCHANGED <<cli, late, result, directory, program>>
         /\ ack' \in Contents /\ response' \in Contents /\ temporary' \in {0, 1}
         /\ failure' \in BOOLEAN
  <1>. USE DEF InspectionTypeOK, Alive, Ended, Contents, cliVars, files, EndsAs
  <1>1. CASE BeginAcknowledgement \/ BeginResponse
    BY <1>1 DEF BeginAcknowledgement, BeginResponse, WriteTemporary
  <1>2. CASE RenameAcknowledgement \/ RenameResponse \/ RemoveTemporary
    BY <1>2 DEF RenameAcknowledgement, RenameResponse, RemoveTemporary
  <1>3. CASE ReturnFromMain \/ RunAgain \/ RefuseRequest \/ Crash \/ OwnExit
    BY <1>3 DEF ReturnFromMain, RunAgain, RefuseRequest, Crash, OwnExit
  <1>4. CASE HandWrite
    BY <1>4 DEF HandWrite
  <1>. QED  BY <1>1, <1>2, <1>3, <1>4 DEF Application, Standard

\* The files of a standard application go from absent to the expected answer,
\* and stay that.
LEMMA StandardPublishes ==
  ASSUME InspectionTypeOK, StandardFiles, Application, program = "standard"
  PROVE  /\ ack' \in {ack, "good"}
         /\ response' \in {response, "good"}
  <1>. USE DEF cliVars, files
  <1>1. CASE BeginAcknowledgement \/ BeginResponse
    BY <1>1 DEF BeginAcknowledgement, BeginResponse, WriteTemporary
  <1>2. CASE RenameAcknowledgement \/ RenameResponse \/ RemoveTemporary
    BY <1>2 DEF RenameAcknowledgement, RenameResponse, RemoveTemporary
  <1>3. CASE ReturnFromMain \/ RunAgain \/ RefuseRequest \/ Crash \/ OwnExit
    BY <1>3 DEF ReturnFromMain, RunAgain, RefuseRequest, Crash, OwnExit
  <1>4. ~HandWrite
    BY DEF HandWrite
  <1>. QED  BY <1>1, <1>2, <1>3, <1>4 DEF Application, Standard

\* A look at the child, and one at the clock, ends the inspection or leads on to
\* the next look of its phase.
LEMMA LooksLead ==
  ASSUME LookAtChild \/ LookAtClock
  PROVE  /\ UNCHANGED <<late, directory, program, child, failure, ack, response, temporary>>
         /\ \/ cli' = "terminate" /\ result' \in {"exited", "no acknowledgement", "no report", "no exit"}
            \/ result' = result /\ <<cli, cli'>> \in
                 {<<"handshake child", "handshake clock">>, <<"report child", "report clock">>,
                  <<"handshake clock", "handshake file">>, <<"report clock", "report file">>,
                  <<"exit clock", "exit child">>}
         /\ cli \in Looks
  <1>. USE DEF files, Fail, Looks
  <1>1. CASE LookAtChild
    <2>1. PICK phase \in {<<"handshake child", "handshake clock">>, <<"report child", "report clock">>} :
            /\ cli = phase[1]
            /\ \/ child \in Ended /\ Fail("exited")
               \/ child \notin Ended /\ cli' = phase[2] /\ UNCHANGED result
      BY <1>1 DEF LookAtChild
    <2>2. CASE phase = <<"handshake child", "handshake clock">>
      BY <1>1, <2>1, <2>2 DEF LookAtChild
    <2>3. CASE phase = <<"report child", "report clock">>
      BY <1>1, <2>1, <2>3 DEF LookAtChild
    <2>. QED  BY <2>1, <2>2, <2>3
  <1>2. CASE LookAtClock
    <2>1. PICK phase \in {<<"handshake clock", "handshake file", "no acknowledgement">>,
                          <<"report clock", "report file", "no report">>,
                          <<"exit clock", "exit child", "no exit">>} :
            /\ cli = phase[1]
            /\ \/ late /\ Fail(phase[3])
               \/ ~late /\ cli' = phase[2] /\ UNCHANGED result
      BY <1>2 DEF LookAtClock
    <2>2. CASE phase = <<"handshake clock", "handshake file", "no acknowledgement">>
      BY <1>2, <2>1, <2>2 DEF LookAtClock
    <2>3. CASE phase = <<"report clock", "report file", "no report">>
      BY <1>2, <2>1, <2>3 DEF LookAtClock
    <2>4. CASE phase = <<"exit clock", "exit child", "no exit">>
      BY <1>2, <2>1, <2>4 DEF LookAtClock
    <2>. QED  BY <2>1, <2>2, <2>3, <2>4
  <1>. QED  BY <1>1, <1>2

\* A step of the CLI or of the clock keeps the types.
LEMMA CliKeepsTypes ==
  ASSUME InspectionTypeOK, Cli \/ DeadlinePasses \/ UNCHANGED inspectVars
  PROVE  InspectionTypeOK'
  <1>. USE DEF InspectionTypeOK, Looks, Results, cliVars, files, Fail
  <1>1. CASE Refuse \/ CannotStart
    BY <1>1 DEF Refuse, CannotStart
  <1>2. CASE Start
    BY <1>2 DEF Start, Alive
  <1>3. CASE LookAtAcknowledgement
    BY <1>3 DEF LookAtAcknowledgement
  <1>4. CASE LookAtReport
    BY <1>4 DEF LookAtReport
  <1>5. CASE LookAtChild
    BY <1>5, LooksLead
  <1>6. CASE LookAtExit
    BY <1>6 DEF LookAtExit
  <1>7. CASE LookAtClock
    BY <1>7, LooksLead
  <1>8. CASE TerminateChild
    BY <1>8 DEF TerminateChild, Ended
  <1>9. CASE Return
    BY <1>9 DEF Return, RemoveDirectory, Contents
  <1>10. CASE DeadlinePasses \/ UNCHANGED inspectVars
    BY <1>10 DEF DeadlinePasses, inspectVars
  <1>. QED  BY <1>1, <1>2, <1>3, <1>4, <1>5, <1>6, <1>7, <1>8, <1>9, <1>10 DEF Cli

\* What the CLI has established, it keeps: it looks only at a child that it has
\* started, and returns only when that child is seen to have ended or is killed.
LEMMA CliKeepsSteps ==
  ASSUME InspectionTypeOK, CliSteps, Cli \/ DeadlinePasses \/ UNCHANGED inspectVars
  PROVE  CliSteps'
  <1>. USE DEF CliSteps, DirectoryIsEmpty, cliVars, files, Fail
  <1>1. CASE Refuse \/ CannotStart
    BY <1>1 DEF Refuse, CannotStart, Alive
  <1>2. CASE Start
    BY <1>2 DEF Start
  <1>3. CASE LookAtAcknowledgement
    BY <1>3 DEF LookAtAcknowledgement
  <1>4. CASE LookAtReport
    BY <1>4 DEF LookAtReport
  <1>5. CASE LookAtChild
    BY <1>5, LooksLead
  <1>6. CASE LookAtExit
    BY <1>6 DEF LookAtExit, Alive
  <1>7. CASE LookAtClock
    BY <1>7, LooksLead
  <1>8. CASE TerminateChild
    BY <1>8 DEF TerminateChild, Alive
  <1>9. CASE Return
    BY <1>9 DEF Return, RemoveDirectory
  <1>10. CASE DeadlinePasses \/ UNCHANGED inspectVars
    BY <1>10 DEF DeadlinePasses, Looks, inspectVars
  <1>. QED  BY <1>1, <1>2, <1>3, <1>4, <1>5, <1>6, <1>7, <1>8, <1>9, <1>10 DEF Cli

\* The CLI goes on from a file of a standard application only when it was the
\* expected answer, which it accepts.
LEMMA CliKeepsFiles ==
  ASSUME StandardFiles, StandardAnswerIsAccepted, Cli \/ DeadlinePasses \/ UNCHANGED inspectVars
  PROVE  StandardFiles' /\ StandardAnswerIsAccepted'
  <1>. USE DEF StandardFiles, StandardAnswerIsAccepted, cliVars, files, Fail
  <1>1. CASE Refuse \/ CannotStart \/ Start
    BY <1>1 DEF Refuse, CannotStart, Start
  <1>2. CASE LookAtAcknowledgement
    BY <1>2 DEF LookAtAcknowledgement
  <1>3. CASE LookAtReport
    BY <1>3 DEF LookAtReport
  <1>4. CASE LookAtChild
    BY <1>4, LooksLead
  <1>5. CASE LookAtExit
    BY <1>5 DEF LookAtExit
  <1>6. CASE LookAtClock
    BY <1>6, LooksLead
  <1>7. CASE TerminateChild \/ Return
    BY <1>7 DEF TerminateChild, Return, RemoveDirectory
  <1>8. CASE DeadlinePasses \/ UNCHANGED inspectVars
    BY <1>8 DEF DeadlinePasses, inspectVars
  <1>. QED  BY <1>1, <1>2, <1>3, <1>4, <1>5, <1>6, <1>7, <1>8 DEF Cli

\* A step of the application keeps all of it: once the CLI is about to return,
\* the child is not alive to take one.
LEMMA ApplicationKeeps ==
  ASSUME InspectionInv, Application
  PROVE  InspectionInv'
  <1>1. /\ child \in Alive /\ child' \in Alive \cup Ended
        /\ UNCHANGED <<cli, late, result, directory, program>>
        /\ ack' \in Contents /\ response' \in Contents /\ temporary' \in {0, 1}
        /\ failure' \in BOOLEAN
    BY ApplicationMoves DEF InspectionInv
  <1>2. cli \notin {"prepare", "return", "returned"} /\ result # "report"
    BY <1>1 DEF InspectionInv, CliSteps, Alive
  <1>3. InspectionTypeOK' /\ CliSteps' /\ StandardAnswerIsAccepted'
    BY <1>1, <1>2 DEF InspectionInv, InspectionTypeOK, CliSteps, StandardAnswerIsAccepted
  <1>4. StandardFiles'
    <2>1. program = "standard" => ack' \in {ack, "good"} /\ response' \in {response, "good"}
      BY StandardPublishes DEF InspectionInv
    <2>. QED  BY <1>1, <2>1 DEF InspectionInv, StandardFiles
  <1>. QED  BY <1>3, <1>4 DEF InspectionInv

\* Every reachable state of an inspection satisfies the inductive invariant.
THEOREM InspectionInvariance == InspectSpec => []InspectionInv
  <1>1. InspectInit => InspectionInv
    BY DEF InspectInit, InspectionInv, InspectionTypeOK, CliSteps, DirectoryIsEmpty,
       StandardFiles, StandardAnswerIsAccepted, Looks, Results, Contents
  <1>2. InspectionInv /\ [InspectNext]_inspectVars => InspectionInv'
    BY CliKeepsTypes, CliKeepsSteps, CliKeepsFiles, ApplicationKeeps DEF InspectNext, InspectionInv
  <1>. QED  BY <1>1, <1>2, PTL DEF InspectSpec

\* The CLI never calls what a standard application published malformed or
\* foreign, whatever crashed or failed while it was published.
THEOREM StandardAnswersAccepted == InspectSpec => []StandardAnswerIsAccepted
  <1>1. InspectionInv => StandardAnswerIsAccepted
    BY DEF InspectionInv
  <1>. QED  BY <1>1, InspectionInvariance, PTL

\* However inspect_application returns, the application it started has ended and
\* the private directory is gone with its files.
THEOREM InspectionsLeaveNothing == InspectSpec => []NothingOutlivesInspection
  <1>1. InspectionInv => NothingOutlivesInspection
    BY DEF InspectionInv, CliSteps, DirectoryIsEmpty, NothingOutlivesInspection
  <1>. QED  BY <1>1, InspectionInvariance, PTL

\* A report is returned only of an application that has exited successfully.
THEOREM ReportsAreEarned == InspectSpec => [](result = "report" => child = "succeeded")
  <1>1. InspectionInv => (result = "report" => child = "succeeded")
    BY DEF InspectionInv, CliSteps
  <1>. QED  BY <1>1, InspectionInvariance, PTL

-----------------------------------------------------------------------------
(***************************************************************************)
(* CommandLine, for every command and every line of arguments.             *)
(***************************************************************************)
\* The last of a set of positions up to `k + 1` is `k + 1`, if it is in there, and
\* the others come before it.
LEMMA LastPosition ==
  ASSUME NEW k \in Nat, NEW s \in SUBSET (1 .. k + 1), s # {}
  PROVE  /\ s \ {Max(s)} \in SUBSET (1 .. k)
         /\ k + 1 \in s => Max(s) = k + 1
         /\ k + 1 \notin s => s \in SUBSET (1 .. k)
  <1>1. \E m \in s : \A n \in s : m >= n
    <2>. DEFINE bounds == {n \in Nat : \A x \in s : x <= n}
    <2>1. k + 1 \in bounds
      OBVIOUS
    <2>2. PICK b \in bounds : \A n \in bounds : b <= n
      BY <2>1, LeastExists
    <2>3. b \in s
      <3>. SUFFICES ASSUME b \notin s PROVE FALSE
        OBVIOUS
      <3>1. b >= 1
        <4>1. PICK x \in s : TRUE
          OBVIOUS
        <4>2. x >= 1 /\ x <= b /\ x \in Nat /\ b \in Nat
          BY <2>2
        <4>. QED  BY <4>2
      <3>2. b - 1 \in bounds
        BY <2>2, <3>1
      <3>. QED  BY <2>2, <3>2
    <2>. QED  BY <2>2, <2>3
  <1>2. Max(s) \in s /\ \A n \in s : Max(s) >= n
    BY <1>1 DEF Max
  <1>. DEFINE m == Max(s)
  <1>3. m \in 1 .. k + 1 /\ \A n \in s : n \in 1 .. k + 1 /\ m >= n
    BY <1>2
  <1>. HIDE DEF m
  <1>4. \A n \in s \ {m} : n \in 1 .. k
    BY <1>3
  <1>5. k + 1 \in s => m = k + 1
    BY <1>3
  <1>6. k + 1 \notin s => \A n \in s : n \in 1 .. k
    BY <1>3
  <1>. QED  BY <1>4, <1>5, <1>6 DEF m

\* All positions are one more than those before the last.
LEMMA AllUpTo ==
  ASSUME NEW k \in Nat
  PROVE  Max(1 .. k + 1) = k + 1 /\ (1 .. k + 1) \ {k + 1} = 1 .. k /\ 1 .. k + 1 # {}
  <1>1. k + 1 \in 1 .. k + 1 /\ 1 .. k + 1 \in SUBSET (1 .. k + 1)
    OBVIOUS
  <1>2. (1 .. k + 1) \ {k + 1} = 1 .. k
    OBVIOUS
  <1>3. 1 .. k + 1 # {}
    BY <1>1
  <1>. QED  BY <1>1, <1>2, <1>3, LastPosition

\* The accumulator of the words at each set of positions up to `k`.
ReadsUpTo(command, words, k, f) ==
  f = [s \in SUBSET (1 .. k) |->
         IF s = {} THEN Fresh ELSE Read(command, f[s \ {Max(s)}], words[Max(s)])]

\* There is one for every line.
LEMMA ReaderExists ==
  ASSUME NEW command, NEW words, NEW n \in Nat
  PROVE  \E f : ReadsUpTo(command, words, n, f)
  <1>. DEFINE Missing == {k \in Nat : ~ \E f : ReadsUpTo(command, words, k, f)}
  <1>. SUFFICES ASSUME Missing # {} PROVE FALSE
    OBVIOUS
  <1>1. PICK m \in Missing : \A k \in Missing : m <= k
    BY LeastExists
  <1>2. m # 0
    <2>. DEFINE f == [s \in SUBSET (1 .. 0) |-> Fresh]
    <2>1. \A s \in SUBSET (1 .. 0) : s = {}
      OBVIOUS
    <2>2. f = [s \in SUBSET (1 .. 0) |->
                 IF s = {} THEN Fresh ELSE Read(command, f[s \ {Max(s)}], words[Max(s)])]
      BY <2>1
    <2>3. ReadsUpTo(command, words, 0, f)
      BY <2>2 DEF ReadsUpTo
    <2>. QED  BY <2>3
  <1>3. PICK k \in Nat : m = k + 1
    <2>1. m - 1 \in Nat /\ m = (m - 1) + 1
      BY <1>2
    <2>. QED  BY <2>1
  <1>4. k \notin Missing
    BY <1>1, <1>3
  <1>5. PICK f : ReadsUpTo(command, words, k, f)
    BY <1>4
  <1>. DEFINE g == [s \in SUBSET (1 .. k + 1) |->
                      IF k + 1 \in s THEN Read(command, f[s \ {k + 1}], words[k + 1]) ELSE f[s]]
              Step(s) == IF s = {} THEN Fresh ELSE Read(command, g[s \ {Max(s)}], words[Max(s)])
  <1>6. \A s \in SUBSET (1 .. k) : /\ g[s] = f[s]
                                   /\ f[s] = IF s = {} THEN Fresh
                                             ELSE Read(command, f[s \ {Max(s)}], words[Max(s)])
    <2>1. \A s \in SUBSET (1 .. k) :
            f[s] = IF s = {} THEN Fresh ELSE Read(command, f[s \ {Max(s)}], words[Max(s)])
      BY <1>5 DEF ReadsUpTo
    <2>2. \A s \in SUBSET (1 .. k) : s \in SUBSET (1 .. k + 1) /\ k + 1 \notin s
      OBVIOUS
    <2>3. \A s \in SUBSET (1 .. k) : g[s] = f[s]
      BY <2>2
    <2>. QED  BY <2>1, <2>3
  <1>7. \A s \in SUBSET (1 .. k + 1) :
          g[s] = IF k + 1 \in s THEN Read(command, f[s \ {k + 1}], words[k + 1]) ELSE f[s]
    OBVIOUS
  <1>8. g = [s \in SUBSET (1 .. k + 1) |-> g[s]]
    OBVIOUS
  <1>. HIDE DEF g
  <1>9. \A s \in SUBSET (1 .. k + 1) : g[s] = Step(s)
    <2>. SUFFICES ASSUME NEW s \in SUBSET (1 .. k + 1) PROVE g[s] = Step(s)
      OBVIOUS
    <2>1. CASE s = {}
      BY <2>1, <1>6
    <2>2. CASE s # {}
      <3>1. s \ {Max(s)} \in SUBSET (1 .. k)
        BY <2>2, LastPosition
      <3>2. CASE k + 1 \in s
        BY <2>2, <3>1, <3>2, <1>6, <1>7, LastPosition
      <3>3. CASE k + 1 \notin s
        BY <2>2, <3>1, <3>3, <1>6, LastPosition
      <3>. QED  BY <3>2, <3>3
    <2>. QED  BY <2>1, <2>2
  <1>10. g = [s \in SUBSET (1 .. k + 1) |-> Step(s)]
    BY <1>8, <1>9
  <1>11. ReadsUpTo(command, words, m, g)
    BY <1>3, <1>10 DEF ReadsUpTo
  <1>. QED  BY <1>11

\* The state of the parser after each word of a line.
Steps(command, words, n, p) ==
  /\ p[0] = Fresh
  /\ \A k \in 0 .. n - 1 : p[k + 1] = Read(command, p[k], words[k + 1])

\* A line is read one word at a time.
LEMMA ParsedInSteps ==
  ASSUME NEW command, NEW W, NEW words \in Seq(W)
  PROVE  \E p : Steps(command, words, Len(words), p) /\ Parsed(command, words) = p[Len(words)]
  <1>. DEFINE n == Len(words)
              f == CHOOSE g : ReadsUpTo(command, words, n, g)
              p == [k \in 0 .. n |-> f[1 .. k]]
  <1>1. DOMAIN words = 1 .. n /\ n \in Nat
    OBVIOUS
  <1>2. Parsed(command, words) = f[1 .. n]
    BY <1>1 DEF Parsed, FoldLeft, MapThenFoldSet, ReadsUpTo
  <1>3. ReadsUpTo(command, words, n, f)
    BY <1>1, ReaderExists
  <1>. HIDE DEF f, n
  <1>4. \A s \in SUBSET (1 .. n) :
          f[s] = IF s = {} THEN Fresh ELSE Read(command, f[s \ {Max(s)}], words[Max(s)])
    BY <1>3 DEF ReadsUpTo
  <1>5. p[0] = Fresh
    <2>1. 1 .. 0 = {} /\ 0 \in 0 .. n
      BY <1>1
    <2>2. f[{}] = Fresh
      BY <1>4
    <2>. QED  BY <2>1, <2>2
  <1>6. ASSUME NEW k \in 0 .. n - 1
        PROVE  p[k + 1] = Read(command, p[k], words[k + 1])
    <2>1. 1 .. k + 1 \in SUBSET (1 .. n) /\ k \in Nat /\ k + 1 \in 0 .. n /\ k \in 0 .. n
      BY <1>1
    <2>2. p[k + 1] = f[1 .. k + 1] /\ p[k] = f[1 .. k]
      BY <2>1
    <2>3. Max(1 .. k + 1) = k + 1 /\ (1 .. k + 1) \ {k + 1} = 1 .. k /\ 1 .. k + 1 # {}
      BY <2>1, AllUpTo
    <2>. HIDE DEF p
    <2>4. f[1 .. k + 1] = Read(command, f[(1 .. k + 1) \ {Max(1 .. k + 1)}], words[Max(1 .. k + 1)])
      BY <1>4, <2>1, <2>3
    <2>. QED  BY <2>2, <2>3, <2>4
  <1>7. p[n] = f[1 .. n]
    BY <1>1
  <1>. HIDE DEF p
  <1>8. Steps(command, words, n, p)
    BY <1>5, <1>6 DEF Steps
  <1>. QED  BY <1>2, <1>7, <1>8 DEF n

\* The value given to a selector by the first `k` words of a line.
Given(command, words, k, selector) ==
  IF \E i \in 1 .. k - 1 : i % 2 = 1 /\ Selector(command, words[i]) = selector
  THEN words[(CHOOSE i \in 1 .. k - 1 : i % 2 = 1 /\ Selector(command, words[i]) = selector) + 1]
  ELSE NoName

\* The first `k` words are selectors, each given once, with a value after each
\* that may be one.
Paired(command, words, k) ==
  \A i \in 1 .. k :
    IF i % 2 = 1
    THEN /\ Selector(command, words[i]) # NoName
         /\ \A j \in 1 .. i - 1 : j % 2 = 1 => Selector(command, words[j]) # Selector(command, words[i])
    ELSE words[i] \notin Dashed \cup NotUnicode

\* The line is ended at `b` by a `--` that the application's arguments follow.
EndsAt(command, words, b) ==
  /\ b % 2 = 1 /\ words[b] = "--" /\ command \in ApplicationCommands
  /\ Paired(command, words, b - 1)

\* What the parser is at after `k` words.
Selected(command, words, k, p) ==
  /\ p.package = Given(command, words, k, "package")
  /\ p.binary = Given(command, words, k, "binary")

Reading(command, words, k, p) ==
  /\ p.ok = TRUE /\ p.ended = FALSE /\ p.arguments = <<>>
  /\ p.awaiting = IF k % 2 = 1 THEN Selector(command, words[k]) ELSE NoName
  /\ Selected(command, words, k, p)

Passing(command, words, b, k, p) ==
  /\ p.ok = TRUE /\ p.ended = TRUE /\ p.awaiting = NoName
  /\ p.arguments = SubSeq(words, b + 1, k)
  /\ Selected(command, words, b - 1, p)

ReadTo(command, words, k, p) ==
  /\ p = [ok |-> p.ok, package |-> p.package, binary |-> p.binary,
          awaiting |-> p.awaiting, ended |-> p.ended, arguments |-> p.arguments]
  /\ p.ok \in BOOLEAN
  /\ Paired(command, words, k) => Reading(command, words, k, p)
  /\ \A b \in 1 .. k : EndsAt(command, words, b) => Passing(command, words, b, k, p)
  /\ \/ Paired(command, words, k)
     \/ \E b \in 1 .. k : EndsAt(command, words, b)
     \/ p.ok = FALSE

\* Naming a package or a binary changes only that selector, and any other word none.
LEMMA Selectors ==
  ASSUME NEW command, NEW argument
  PROVE  /\ Selector(command, argument) \in {"package", "binary", NoName}
         /\ Selector(command, argument) = "package" <=> argument \in {"--package", "-p"}
         /\ Selector(command, argument) = "binary" <=> argument = "--bin" /\ command \in TargetCommands
         /\ Selector(command, "--") = NoName
         /\ NoName # "package" /\ NoName # "binary" /\ "--" \in Dashed
  BY DEF Selector, NoName, Dashed

\* A line is ended in one place, and not where it is still in pairs.
LEMMA OneEnd ==
  ASSUME NEW command, NEW words, NEW k \in Nat, NEW b \in 1 .. k, EndsAt(command, words, b)
  PROVE  /\ ~Paired(command, words, k)
         /\ \A c \in 1 .. k : EndsAt(command, words, c) => c = b
  <1>1. \A c, d \in 1 .. k : EndsAt(command, words, c) /\ Paired(command, words, d) => d < c
    BY Selectors DEF EndsAt, Paired
  <1>2. k \in 1 .. k
    OBVIOUS
  <1>3. ASSUME NEW c \in 1 .. k, NEW d \in 1 .. k, EndsAt(command, words, c), EndsAt(command, words, d)
        PROVE  ~ (c < d)
    <2>1. Paired(command, words, d - 1) /\ (c < d => d - 1 \in 1 .. k)
      BY <1>3 DEF EndsAt
    <2>. QED  BY <1>1, <1>3, <2>1
  <1>. QED  BY <1>1, <1>2, <1>3

\* What is in pairs up to a word is so up to any word before.
LEMMA PairedBefore ==
  ASSUME NEW command, NEW words, NEW k \in Nat
  PROVE  Paired(command, words, k + 1) <=>
           /\ Paired(command, words, k)
           /\ IF (k + 1) % 2 = 1
              THEN /\ Selector(command, words[k + 1]) # NoName
                   /\ \A j \in 1 .. k : j % 2 = 1 =>
                        Selector(command, words[j]) # Selector(command, words[k + 1])
              ELSE words[k + 1] \notin Dashed \cup NotUnicode
  <1>1. 1 .. k + 1 = (1 .. k) \cup {k + 1} /\ (k + 1) - 1 = k
    OBVIOUS
  <1>. QED  BY <1>1 DEF Paired

\* What the selectors stand for, after one more option and its value.
LEMMA GivenNext ==
  ASSUME NEW command, NEW words, NEW k \in Nat, Paired(command, words, k),
         NEW selector \in {"package", "binary"}
  PROVE  /\ k % 2 = 0 => Given(command, words, k + 1, selector) = Given(command, words, k, selector)
         /\ k % 2 = 1 => Given(command, words, k + 1, selector) =
              IF Selector(command, words[k]) = selector THEN words[k + 1]
              ELSE Given(command, words, k, selector)
  <1>. DEFINE Of(i) == i % 2 = 1 /\ Selector(command, words[i]) = selector
  <1>0. (k + 1) - 1 = k
    OBVIOUS
  <1>1. \A i \in 1 .. k : i \in 1 .. k - 1 \/ i = k
    OBVIOUS
  <1>2. \A i \in 1 .. k - 1 : i \in 1 .. k /\ i # k
    OBVIOUS
  <1>3. \A i, j \in 1 .. k : Of(i) /\ Of(j) => i = j
    <2>1. \A i, j \in 1 .. k : Of(i) /\ Of(j) => ~ (j < i)
      BY DEF Paired
    <2>. QED  BY <2>1
  <1>. HIDE DEF Of
  <1>4. CASE k % 2 = 1 /\ Selector(command, words[k]) = selector
    <2>1. k \in 1 .. k /\ Of(k)
      BY <1>4 DEF Of
    <2>2. (CHOOSE i \in 1 .. k : Of(i)) = k
      BY <2>1, <1>3
    <2>3. Given(command, words, k + 1, selector) = words[k + 1]
      BY <2>1, <2>2, <1>0 DEF Given, Of
    <2>. QED  BY <1>4, <2>3
  <1>5. CASE ~ (k % 2 = 1 /\ Selector(command, words[k]) = selector)
    <2>1. \A i : i \in 1 .. k /\ Of(i) <=> i \in 1 .. k - 1 /\ Of(i)
      BY <1>5, <1>1, <1>2 DEF Of
    <2>2. (CHOOSE i : i \in 1 .. k /\ Of(i)) = (CHOOSE i : i \in 1 .. k - 1 /\ Of(i))
      BY <2>1
    <2>3. (CHOOSE i \in 1 .. k : Of(i)) = (CHOOSE i \in 1 .. k - 1 : Of(i))
      BY <2>2
    <2>4. (\E i \in 1 .. k : Of(i)) <=> (\E i \in 1 .. k - 1 : Of(i))
      BY <2>1
    <2>5. Given(command, words, k + 1, selector) = Given(command, words, k, selector)
      BY <2>3, <2>4, <1>0 DEF Given, Of
    <2>. QED  BY <1>5, <2>5
  <1>. QED  BY <1>4, <1>5

\* The last word of the application's arguments so far.
LEMMA OneWordMore ==
  ASSUME NEW W, NEW words \in Seq(W), NEW b \in Nat \ {0}, NEW k \in Nat, b <= k, k < Len(words)
  PROVE  SubSeq(words, b + 1, k + 1) = Append(SubSeq(words, b + 1, k), words[k + 1])
  OBVIOUS

\* A selector that has no value yet has not been named yet.
LEMMA NotGiven ==
  ASSUME NEW command, NEW words, NEW k \in Nat, k % 2 = 0,
         \A i \in 1 .. k : words[i] # NoName,
         NEW selector \in {"package", "binary"}
  PROVE  Given(command, words, k, selector) = NoName <=>
           \A j \in 1 .. k : j % 2 = 1 => Selector(command, words[j]) # selector
  <1>. DEFINE Of(i) == i % 2 = 1 /\ Selector(command, words[i]) = selector
              one == CHOOSE i \in 1 .. k - 1 : Of(i)
  <1>1. \A i \in 1 .. k : i % 2 = 1 => i \in 1 .. k - 1
    OBVIOUS
  <1>2. \A i \in 1 .. k - 1 : i \in 1 .. k
    OBVIOUS
  <1>3. CASE \E i \in 1 .. k - 1 : Of(i)
    <2>1. one \in 1 .. k - 1
      BY <1>3
    <2>2. one + 1 \in 1 .. k
      BY <2>1
    <2>3. Given(command, words, k, selector) = words[one + 1]
      BY <1>3 DEF Given
    <2>. QED  BY <1>3, <1>2, <2>2, <2>3
  <1>4. CASE ~ \E i \in 1 .. k - 1 : Of(i)
    BY <1>1, <1>4 DEF Given
  <1>. QED  BY <1>3, <1>4

\* One more word.
LEMMA ReadNext ==
  ASSUME NEW command, NEW W, NEW words \in Seq(W),
         \A i \in 1 .. Len(words) : words[i] # NoName,
         NEW k \in Nat, k < Len(words), NEW p, ReadTo(command, words, k, p)
  PROVE  ReadTo(command, words, k + 1, Read(command, p, words[k + 1]))
  <1>. DEFINE word == words[k + 1]
              q == Read(command, p, word)
              selector == Selector(command, word)
  <1>1. selector \in {"package", "binary", NoName} /\ NoName \notin {"package", "binary"}
    BY Selectors
  <1>2. p = [ok |-> p.ok, package |-> p.package, binary |-> p.binary,
             awaiting |-> p.awaiting, ended |-> p.ended, arguments |-> p.arguments]
    BY DEF ReadTo
  <1>3. p.ok \in BOOLEAN
    BY DEF ReadTo
  <1>. HIDE DEF word, selector
  \* A state with the fields of one.
  <1>. DEFINE Whole(r) == r = [ok |-> r.ok, package |-> r.package, binary |-> r.binary,
                               awaiting |-> r.awaiting, ended |-> r.ended, arguments |-> r.arguments]
  <1>4. CASE \E b \in 1 .. k : EndsAt(command, words, b)
    <2>1. PICK b \in 1 .. k : EndsAt(command, words, b)
      BY <1>4
    <2>2. Passing(command, words, b, k, p)
      BY <2>1 DEF ReadTo
    <2>3. q = [p EXCEPT !.arguments = Append(p.arguments, word)]
      BY <2>2 DEF Read, Passing
    <2>4. /\ Whole(q) /\ q.ok = TRUE /\ q.ended = TRUE /\ q.awaiting = NoName
          /\ q.package = p.package /\ q.binary = p.binary /\ q.arguments = Append(p.arguments, word)
      BY <1>2, <2>2, <2>3 DEF Passing
    <2>5. q.arguments = SubSeq(words, b + 1, k + 1)
      <3>1. b \in Nat \ {0} /\ b <= k
        OBVIOUS
      <3>2. SubSeq(words, b + 1, k + 1) = Append(SubSeq(words, b + 1, k), words[k + 1])
        BY <3>1, OneWordMore
      <3>. QED  BY <2>2, <2>4, <3>2 DEF Passing, word
    <2>6. Passing(command, words, b, k + 1, q)
      BY <2>2, <2>4, <2>5 DEF Passing, Selected
    <2>7. b \in 1 .. k + 1 /\ k + 1 \in Nat
      OBVIOUS
    <2>8. ~Paired(command, words, k + 1) /\ \A c \in 1 .. k + 1 : EndsAt(command, words, c) => c = b
      BY <2>1, <2>7, OneEnd
    <2>. QED  BY <2>1, <2>4, <2>6, <2>7, <2>8 DEF ReadTo, word
  <1>5. CASE ~Paired(command, words, k) /\ ~ \E b \in 1 .. k : EndsAt(command, words, b)
    <2>1. p.ok = FALSE
      BY <1>5 DEF ReadTo
    <2>2. q = p
      BY <2>1 DEF Read
    <2>3. ~Paired(command, words, k + 1)
      BY <1>5, PairedBefore
    <2>4. \A b \in 1 .. k + 1 : ~EndsAt(command, words, b)
      <3>1. \A b \in 1 .. k + 1 : b \in 1 .. k \/ (b = k + 1 /\ b - 1 = k)
        OBVIOUS
      <3>. QED  BY <1>5, <3>1 DEF EndsAt
    <2>. QED  BY <1>2, <2>1, <2>2, <2>3, <2>4 DEF ReadTo, word
  <1>6. CASE Paired(command, words, k)
    <2>1. Reading(command, words, k, p)
      BY <1>6 DEF ReadTo
    <2>2. \A b \in 1 .. k : ~EndsAt(command, words, b)
      BY <1>6, OneEnd
    <2>3. \A b \in 1 .. k + 1 : EndsAt(command, words, b) =>
            b = k + 1 /\ (k + 1) % 2 = 1 /\ word = "--" /\ command \in ApplicationCommands
      <3>1. \A b \in 1 .. k + 1 : b \in 1 .. k \/ b = k + 1
        OBVIOUS
      <3>. QED  BY <2>2, <3>1 DEF EndsAt, word
    <2>4. CASE k % 2 = 1
      <3>1. (k + 1) % 2 # 1
        BY <2>4
      <3>2. k \in 1 .. k
        BY <2>4
      <3>3. p.awaiting = Selector(command, words[k]) /\ p.awaiting \in {"package", "binary"}
        BY <1>6, <2>1, <2>4, <3>2, Selectors DEF Reading, Paired
      <3>4. CASE word \in Dashed \cup NotUnicode
        <4>1. ~Paired(command, words, k + 1)
          BY <3>1, <3>4, PairedBefore DEF word
        <4>2. q = [p EXCEPT !.ok = FALSE]
          BY <1>1, <2>1, <3>3, <3>4 DEF Read, Reading
        <4>3. Whole(q) /\ q.ok = FALSE
          BY <1>2, <4>2
        <4>. QED  BY <2>3, <3>1, <4>1, <4>3 DEF ReadTo, word
      <3>5. CASE word \notin Dashed \cup NotUnicode
        <4>1. q = [p EXCEPT ![p.awaiting] = word, !.awaiting = NoName]
          BY <1>1, <2>1, <3>3, <3>5 DEF Read, Reading
        <4>2. /\ Whole(q) /\ q.ok = TRUE /\ q.ended = FALSE /\ q.arguments = <<>> /\ q.awaiting = NoName
              /\ q.package = IF p.awaiting = "package" THEN word ELSE p.package
              /\ q.binary = IF p.awaiting = "binary" THEN word ELSE p.binary
          <5>1. CASE p.awaiting = "package"
            BY <1>2, <2>1, <4>1, <5>1 DEF Reading
          <5>2. CASE p.awaiting = "binary"
            BY <1>2, <2>1, <4>1, <5>2 DEF Reading
          <5>. QED  BY <3>3, <5>1, <5>2
        <4>3. Selected(command, words, k + 1, q)
          BY <1>6, <2>1, <2>4, <3>3, <4>2, GivenNext DEF Reading, Selected, word
        <4>4. Reading(command, words, k + 1, q)
          BY <3>1, <4>2, <4>3 DEF Reading
        <4>5. Paired(command, words, k + 1)
          BY <1>6, <3>1, <3>5, PairedBefore DEF word
        <4>. QED  BY <2>3, <3>1, <4>2, <4>4, <4>5 DEF ReadTo, word
      <3>. QED  BY <3>4, <3>5
    <2>5. CASE k % 2 = 0
      <3>1. (k + 1) % 2 = 1
        BY <2>5
      <3>2. p.awaiting = NoName
        BY <2>1, <2>5 DEF Reading
      <3>3. CASE word = "--" /\ command \in ApplicationCommands
        <4>1. q = [p EXCEPT !.ended = TRUE]
          BY <2>1, <3>2, <3>3 DEF Read, Reading
        <4>2. Whole(q) /\ q.ok = TRUE /\ q.ended = TRUE /\ q.awaiting = NoName /\ q.arguments = <<>>
              /\ q.package = p.package /\ q.binary = p.binary
          BY <1>2, <2>1, <3>2, <4>1 DEF Reading
        <4>3. SubSeq(words, (k + 1) + 1, k + 1) = <<>> /\ (k + 1) - 1 = k
          OBVIOUS
        <4>4. Passing(command, words, k + 1, k + 1, q)
          BY <2>1, <4>2, <4>3 DEF Passing, Reading, Selected
        <4>5. EndsAt(command, words, k + 1) /\ k + 1 \in 1 .. k + 1 /\ k + 1 \in Nat
          BY <1>6, <3>1, <3>3, <4>3 DEF EndsAt, word
        <4>6. ~Paired(command, words, k + 1)
          BY <4>5, OneEnd
        <4>. QED  BY <2>3, <4>2, <4>4, <4>5, <4>6 DEF ReadTo, word
      <3>4. CASE ~ (word = "--" /\ command \in ApplicationCommands)
        <4>1. \A b \in 1 .. k + 1 : ~EndsAt(command, words, b)
          BY <2>3, <3>4
        <4>2. Paired(command, words, k + 1) <=>
                selector # NoName /\ \A j \in 1 .. k : j % 2 = 1 => Selector(command, words[j]) # selector
          BY <1>6, <3>1, PairedBefore DEF word, selector
        <4>3. \A s \in {"package", "binary"} :
                Given(command, words, k, s) = NoName <=>
                  \A j \in 1 .. k : j % 2 = 1 => Selector(command, words[j]) # s
          <5>1. \A i \in 1 .. k : words[i] # NoName
            OBVIOUS
          <5>. QED  BY <2>5, <5>1, NotGiven
        <4>4. selector # NoName => p[selector] = Given(command, words, k, selector)
          BY <1>1, <2>1 DEF Reading, Selected
        <4>5. Paired(command, words, k + 1) <=> selector # NoName /\ p[selector] = NoName
          BY <1>1, <4>2, <4>3, <4>4
        <4>6. CASE Paired(command, words, k + 1)
          <5>1. q = [p EXCEPT !.awaiting = selector]
            BY <2>1, <3>2, <3>4, <4>5, <4>6 DEF Read, Reading, selector
          <5>2. /\ Whole(q) /\ q.ok = TRUE /\ q.ended = FALSE /\ q.arguments = <<>>
                /\ q.awaiting = selector /\ q.package = p.package /\ q.binary = p.binary
            BY <1>2, <2>1, <5>1 DEF Reading
          <5>3. Selected(command, words, k + 1, q)
            BY <1>6, <2>1, <2>5, <5>2, GivenNext DEF Reading, Selected
          <5>4. Reading(command, words, k + 1, q)
            BY <3>1, <5>2, <5>3 DEF Reading, selector, word
          <5>. QED  BY <4>1, <4>6, <5>2, <5>4 DEF ReadTo, word
        <4>7. CASE ~Paired(command, words, k + 1)
          <5>1. q = [p EXCEPT !.ok = FALSE]
            BY <2>1, <3>2, <3>4, <4>5, <4>7 DEF Read, Reading, selector
          <5>2. Whole(q) /\ q.ok = FALSE
            BY <1>2, <5>1
          <5>. QED  BY <4>1, <4>7, <5>2 DEF ReadTo, word
        <4>. QED  BY <4>6, <4>7
      <3>. QED  BY <3>3, <3>4
    <2>. QED  BY <2>4, <2>5
  <1>. QED  BY <1>4, <1>5, <1>6

\* What a line is parsed to.
THEOREM LinesParse ==
  ASSUME NEW command, NEW W, NEW words \in Seq(W),
         \A i \in 1 .. Len(words) : words[i] # NoName
  PROVE  ReadTo(command, words, Len(words), Parsed(command, words))
  <1>. DEFINE n == Len(words)
  <1>1. PICK p : Steps(command, words, n, p) /\ Parsed(command, words) = p[n]
    BY ParsedInSteps
  <1>2. n \in Nat
    OBVIOUS
  <1>3. ReadTo(command, words, 0, Fresh)
    BY DEF ReadTo, Fresh, Paired, Reading, Selected, Given
  <1>. HIDE DEF n
  <1>. DEFINE Wrong == {k \in 0 .. n : ~ReadTo(command, words, k, p[k])}
  <1>4. Wrong = {}
    <2>. SUFFICES ASSUME Wrong # {} PROVE FALSE
      OBVIOUS
    <2>1. PICK m \in Wrong : \A k \in Wrong : m <= k
      <3>1. Wrong \in SUBSET Nat
        BY <1>2
      <3>. QED  BY <3>1, LeastExists
    <2>2. m # 0
      BY <1>1, <1>3 DEF Steps
    <2>3. PICK k \in 0 .. n - 1 : m = k + 1
      <3>1. m - 1 \in 0 .. n - 1 /\ m = (m - 1) + 1
        BY <1>2, <2>1, <2>2
      <3>. QED  BY <3>1
    <2>4. k \in 0 .. n /\ k \in Nat /\ k < n
      BY <1>2
    <2>5. ReadTo(command, words, k, p[k])
      BY <2>1, <2>3, <2>4
    <2>6. p[m] = Read(command, p[k], words[k + 1])
      BY <1>1, <2>3 DEF Steps
    <2>7. ReadTo(command, words, k + 1, Read(command, p[k], words[k + 1]))
      BY <2>4, <2>5, ReadNext DEF n
    <2>. QED  BY <2>1, <2>3, <2>6, <2>7
  <1>5. n \in 0 .. n
    BY <1>2
  <1>. QED  BY <1>1, <1>4, <1>5 DEF n

\* A line is accepted if it is all selectors with their values, up to its end or
\* to a `--` where the command has one; it stands for the values given, and the
\* application gets what follows the `--`.
THEOREM LinesAccepted ==
  ASSUME NEW command \in TargetCommands \cup DatabaseCommands, NEW W, NEW words \in Seq(W),
         \A i \in 1 .. Len(words) : words[i] # NoName
  PROVE  LET parsed == Parsed(command, words)
             n == Len(words)
         IN  /\ ParseAccepted(command, words) <=>
                  \/ n % 2 = 0 /\ Paired(command, words, n)
                  \/ \E b \in 1 .. n : EndsAt(command, words, b)
             /\ n % 2 = 0 /\ Paired(command, words, n) =>
                  Selected(command, words, n, parsed) /\ parsed.arguments = <<>>
             /\ \A b \in 1 .. n : EndsAt(command, words, b) =>
                  Selected(command, words, b - 1, parsed) /\ parsed.arguments = SubSeq(words, b + 1, n)
  <1>. DEFINE n == Len(words)
              parsed == Parsed(command, words)
  <1>1. ReadTo(command, words, n, parsed)
    BY LinesParse
  <1>2. n \in Nat
    OBVIOUS
  <1>3. Paired(command, words, n) /\ n % 2 = 1 => Selector(command, words[n]) # NoName
    <2>1. n % 2 = 1 => n \in 1 .. n
      BY <1>2
    <2>. QED  BY <2>1 DEF Paired
  <1>4. ParseAccepted(command, words) <=> parsed.ok = TRUE /\ parsed.awaiting = NoName
    BY <1>1 DEF ParseAccepted, ReadTo
  <1>. HIDE DEF n, parsed
  <1>5. CASE Paired(command, words, n)
    <2>1. Reading(command, words, n, parsed)
      BY <1>1, <1>5 DEF ReadTo
    <2>2. \A b \in 1 .. n : ~EndsAt(command, words, b)
      BY <1>2, <1>5, OneEnd
    <2>3. n % 2 = 1 \/ n % 2 = 0
      BY <1>2
    <2>. QED  BY <1>3, <1>4, <1>5, <2>1, <2>2, <2>3 DEF Reading, n, parsed
  <1>6. CASE \E b \in 1 .. n : EndsAt(command, words, b)
    <2>1. ~Paired(command, words, n)
      BY <1>2, <1>6, OneEnd
    <2>2. \A b \in 1 .. n : EndsAt(command, words, b) => Passing(command, words, b, n, parsed)
      BY <1>1 DEF ReadTo
    <2>. QED  BY <1>4, <1>6, <2>1, <2>2 DEF Passing, n, parsed
  <1>7. CASE ~Paired(command, words, n) /\ ~ \E b \in 1 .. n : EndsAt(command, words, b)
    <2>1. parsed.ok = FALSE
      BY <1>1, <1>7 DEF ReadTo
    <2>. QED  BY <1>4, <1>7, <2>1 DEF n, parsed
  <1>. QED  BY <1>5, <1>6, <1>7

-----------------------------------------------------------------------------
\* The accumulator of the messages at each set of positions up to `k`.
CollectsUpTo(application, messages, k, f) ==
  f = [s \in SUBSET (1 .. k) |->
         IF s = {} THEN NothingCollected
         ELSE Collect(application, f[s \ {Max(s)}], messages[Max(s)])]

\* There is one for every output of Cargo.
LEMMA CollectorExists ==
  ASSUME NEW application, NEW messages, NEW n \in Nat
  PROVE  \E f : CollectsUpTo(application, messages, n, f)
  <1>. DEFINE Missing == {k \in Nat : ~ \E f : CollectsUpTo(application, messages, k, f)}
  <1>. SUFFICES ASSUME Missing # {} PROVE FALSE
    OBVIOUS
  <1>1. PICK m \in Missing : \A k \in Missing : m <= k
    BY LeastExists
  <1>2. m # 0
    <2>. DEFINE f == [s \in SUBSET (1 .. 0) |-> NothingCollected]
    <2>1. \A s \in SUBSET (1 .. 0) : s = {}
      OBVIOUS
    <2>2. f = [s \in SUBSET (1 .. 0) |->
                 IF s = {} THEN NothingCollected
                 ELSE Collect(application, f[s \ {Max(s)}], messages[Max(s)])]
      BY <2>1
    <2>3. CollectsUpTo(application, messages, 0, f)
      BY <2>2 DEF CollectsUpTo
    <2>. QED  BY <2>3
  <1>3. PICK k \in Nat : m = k + 1
    <2>1. m - 1 \in Nat /\ m = (m - 1) + 1
      BY <1>2
    <2>. QED  BY <2>1
  <1>4. k \notin Missing
    BY <1>1, <1>3
  <1>5. PICK f : CollectsUpTo(application, messages, k, f)
    BY <1>4
  <1>. DEFINE g == [s \in SUBSET (1 .. k + 1) |->
                      IF k + 1 \in s THEN Collect(application, f[s \ {k + 1}], messages[k + 1])
                      ELSE f[s]]
              Step(s) == IF s = {} THEN NothingCollected
                         ELSE Collect(application, g[s \ {Max(s)}], messages[Max(s)])
  <1>6. \A s \in SUBSET (1 .. k) :
          /\ g[s] = f[s]
          /\ f[s] = IF s = {} THEN NothingCollected
                    ELSE Collect(application, f[s \ {Max(s)}], messages[Max(s)])
    <2>1. \A s \in SUBSET (1 .. k) :
            f[s] = IF s = {} THEN NothingCollected
                   ELSE Collect(application, f[s \ {Max(s)}], messages[Max(s)])
      BY <1>5 DEF CollectsUpTo
    <2>2. \A s \in SUBSET (1 .. k) : s \in SUBSET (1 .. k + 1) /\ k + 1 \notin s
      OBVIOUS
    <2>3. \A s \in SUBSET (1 .. k) : g[s] = f[s]
      BY <2>2
    <2>. QED  BY <2>1, <2>3
  <1>7. \A s \in SUBSET (1 .. k + 1) :
          g[s] = IF k + 1 \in s THEN Collect(application, f[s \ {k + 1}], messages[k + 1]) ELSE f[s]
    OBVIOUS
  <1>8. g = [s \in SUBSET (1 .. k + 1) |-> g[s]]
    OBVIOUS
  <1>. HIDE DEF g
  <1>9. \A s \in SUBSET (1 .. k + 1) : g[s] = Step(s)
    <2>. SUFFICES ASSUME NEW s \in SUBSET (1 .. k + 1) PROVE g[s] = Step(s)
      OBVIOUS
    <2>1. CASE s = {}
      BY <2>1, <1>6
    <2>2. CASE s # {}
      <3>1. s \ {Max(s)} \in SUBSET (1 .. k)
        BY <2>2, LastPosition
      <3>2. CASE k + 1 \in s
        BY <2>2, <3>1, <3>2, <1>6, <1>7, LastPosition
      <3>3. CASE k + 1 \notin s
        BY <2>2, <3>1, <3>3, <1>6, LastPosition
      <3>. QED  BY <3>2, <3>3
    <2>. QED  BY <2>1, <2>2
  <1>10. g = [s \in SUBSET (1 .. k + 1) |-> Step(s)]
    BY <1>8, <1>9
  <1>11. CollectsUpTo(application, messages, m, g)
    BY <1>3, <1>10 DEF CollectsUpTo
  <1>. QED  BY <1>11

\* What has been collected after each message.
Collects(application, messages, n, p) ==
  /\ p[0] = NothingCollected
  /\ \A k \in 0 .. n - 1 : p[k + 1] = Collect(application, p[k], messages[k + 1])

\* The output of Cargo is read one message at a time.
LEMMA CollectedInSteps ==
  ASSUME NEW application, NEW M, NEW messages \in Seq(M)
  PROVE  \E p : /\ Collects(application, messages, Len(messages), p)
                /\ Collected(application, messages) = p[Len(messages)]
  <1>. DEFINE n == Len(messages)
              f == CHOOSE g : CollectsUpTo(application, messages, n, g)
              p == [k \in 0 .. n |-> f[1 .. k]]
  <1>1. DOMAIN messages = 1 .. n /\ n \in Nat
    OBVIOUS
  <1>2. Collected(application, messages) = f[1 .. n]
    BY <1>1 DEF Collected, FoldLeft, MapThenFoldSet, CollectsUpTo
  <1>3. CollectsUpTo(application, messages, n, f)
    BY <1>1, CollectorExists
  <1>. HIDE DEF f, n
  <1>4. \A s \in SUBSET (1 .. n) :
          f[s] = IF s = {} THEN NothingCollected
                 ELSE Collect(application, f[s \ {Max(s)}], messages[Max(s)])
    BY <1>3 DEF CollectsUpTo
  <1>5. p[0] = NothingCollected
    <2>1. 1 .. 0 = {} /\ 0 \in 0 .. n
      BY <1>1
    <2>2. f[{}] = NothingCollected
      BY <1>4
    <2>. QED  BY <2>1, <2>2
  <1>6. ASSUME NEW k \in 0 .. n - 1
        PROVE  p[k + 1] = Collect(application, p[k], messages[k + 1])
    <2>1. 1 .. k + 1 \in SUBSET (1 .. n) /\ k \in Nat /\ k + 1 \in 0 .. n /\ k \in 0 .. n
      BY <1>1
    <2>2. p[k + 1] = f[1 .. k + 1] /\ p[k] = f[1 .. k]
      BY <2>1
    <2>3. Max(1 .. k + 1) = k + 1 /\ (1 .. k + 1) \ {k + 1} = 1 .. k /\ 1 .. k + 1 # {}
      BY <2>1, AllUpTo
    <2>. HIDE DEF p
    <2>4. f[1 .. k + 1] = Collect(application, f[(1 .. k + 1) \ {Max(1 .. k + 1)}],
                                  messages[Max(1 .. k + 1)])
      BY <1>4, <2>1, <2>3
    <2>. QED  BY <2>2, <2>3, <2>4
  <1>7. p[n] = f[1 .. n]
    BY <1>1
  <1>. HIDE DEF p
  <1>8. Collects(application, messages, n, p)
    BY <1>5, <1>6 DEF Collects
  <1>. QED  BY <1>2, <1>7, <1>8 DEF n

-----------------------------------------------------------------------------
\* The words of a case, none of which stands for no name.
CaseWords == Words \cup {"tool", "web", "none such"}
CaseCommands == {"run", "dev", "doctor", "graph", "db migrate", "db rollback", "server"}

\* The words of a case are not what stands for no name.
LEMMA NoNameGiven ==
  ASSUME NEW words \in Seq(CaseWords)
  PROVE  \A i \in 1 .. Len(words) : words[i] # NoName
  <1>1. NoName \notin CaseWords
    BY DEF CaseWords, Words, NoName
  <1>2. \A i \in 1 .. Len(words) : words[i] \in CaseWords
    OBVIOUS
  <1>. QED  BY <1>1, <1>2

\* The first `--` is after the positions before it.
LEMMA FirstBreak ==
  ASSUME NEW W, NEW words \in Seq(W)
  PROVE  LET n == Len(words)
             break == Break(words)
         IN  /\ n \in Nat /\ break \in 1 .. n + 1
             /\ \A i \in 1 .. break - 1 : i \in 1 .. n /\ words[i] # "--"
             /\ Breaks(words) = {} <=> break = n + 1
             /\ Breaks(words) # {} => break \in 1 .. n /\ words[break] = "--"
  <1>. DEFINE n == Len(words)
              break == Break(words)
  <1>1. DOMAIN words = 1 .. n /\ n \in Nat
    OBVIOUS
  <1>2. CASE Breaks(words) = {}
    BY <1>1, <1>2 DEF Break, Breaks
  <1>3. CASE Breaks(words) # {}
    <2>1. Breaks(words) \in SUBSET Nat
      BY <1>1 DEF Breaks
    <2>2. \E i \in Breaks(words) : \A j \in Breaks(words) : i <= j
      BY <1>3, <2>1, LeastExists
    <2>3. break \in Breaks(words) /\ \A j \in Breaks(words) : break <= j
      BY <1>3, <2>2 DEF Break
    <2>. HIDE DEF break
    <2>4. break \in 1 .. n /\ words[break] = "--"
      BY <1>1, <2>3 DEF Breaks
    <2>5. \A i \in 1 .. break - 1 : i \in 1 .. n /\ i \notin Breaks(words)
      BY <1>1, <2>3, <2>4
    <2>6. \A i \in 1 .. break - 1 : i \in 1 .. n /\ words[i] # "--"
      BY <1>1, <2>5 DEF Breaks
    <2>. QED  BY <1>1, <1>3, <2>4, <2>6 DEF break
  <1>. QED  BY <1>2, <1>3

\* A set of positions has at most one of them.
LEMMA AtMostOnePosition ==
  ASSUME NEW n \in Nat, NEW S \in SUBSET (1 .. n)
  PROVE  Cardinality(S) <= 1 <=> \A i, j \in S : i = j
  <1>1. IsFiniteSet(S) /\ Cardinality(S) \in Nat
    <2>1. IsFiniteSet(1 .. n)
      BY FS_Interval
    <2>2. IsFiniteSet(S)
      BY <2>1, FS_Subset
    <2>. QED  BY <2>2, FS_CardinalityType
  <1>2. CASE S = {}
    BY <1>2, FS_EmptySet
  <1>3. CASE S # {}
    <2>1. PICK x \in S : TRUE
      BY <1>3
    <2>2. Cardinality(S) = 1 => \E y : S = {y}
      BY <1>1, FS_Singleton
    <2>3. Cardinality(S) # 0
      BY <1>1, <1>3, FS_EmptySet
    <2>4. (\A i, j \in S : i = j) => S = {x}
      BY <2>1
    <2>5. Cardinality({x}) = 1
      BY FS_Singleton
    <2>6. Cardinality(S) <= 1 => Cardinality(S) = 1
      BY <1>1, <2>3
    <2>. QED  BY <2>2, <2>4, <2>5, <2>6
  <1>. QED  BY <1>2, <1>3

\* An accepted line in the words of the cases.
LEMMA AcceptedSyntax ==
  ASSUME NEW command \in CaseCommands \ {"server"}, NEW words \in Seq(CaseWords)
  PROVE  ParseAccepted(command, words) <=>
           /\ (Break(words) - 1) % 2 = 0
           /\ Paired(command, words, Break(words) - 1)
           /\ Breaks(words) # {} => command \in ApplicationCommands
  <1>. DEFINE n == Len(words)
              break == Break(words)
  <1>1. command \in TargetCommands \cup DatabaseCommands
    BY DEF CaseCommands, TargetCommands, DatabaseCommands, ApplicationCommands, InspectionCommands
  <1>2. \A i \in 1 .. Len(words) : words[i] # NoName
    BY NoNameGiven
  <1>3. ParseAccepted(command, words) <=>
          \/ n % 2 = 0 /\ Paired(command, words, n)
          \/ \E b \in 1 .. n : EndsAt(command, words, b)
    BY <1>1, <1>2, LinesAccepted
  <1>4. /\ n \in Nat /\ break \in 1 .. n + 1
        /\ \A i \in 1 .. break - 1 : i \in 1 .. n /\ words[i] # "--"
        /\ Breaks(words) = {} <=> break = n + 1
        /\ Breaks(words) # {} => break \in 1 .. n /\ words[break] = "--"
    BY FirstBreak
  <1>. HIDE DEF n, break
  <1>5. CASE Breaks(words) = {}
    <2>1. break - 1 = n
      BY <1>4, <1>5
    <2>2. \A b \in 1 .. n : ~EndsAt(command, words, b)
      BY <1>4, <2>1 DEF EndsAt
    <2>. QED  BY <1>3, <1>5, <2>1, <2>2 DEF break
  <1>6. CASE Breaks(words) # {}
    <2>1. break \in 1 .. n /\ words[break] = "--" /\ break % 2 \in {0, 1}
      BY <1>4, <1>6
    <2>2. ~Paired(command, words, n)
      BY <2>1, Selectors DEF Paired
    <2>3. \A b \in 1 .. n : EndsAt(command, words, b) => b = break
      <3>1. \A b \in 1 .. n : EndsAt(command, words, b) => ~ (b < break)
        BY <1>4, <2>1 DEF EndsAt
      <3>2. \A b \in 1 .. n : EndsAt(command, words, b) => ~ (break < b)
        BY <2>1, Selectors DEF EndsAt, Paired
      <3>. QED  BY <2>1, <3>1, <3>2
    <2>4. EndsAt(command, words, break) <=>
            break % 2 = 1 /\ command \in ApplicationCommands /\ Paired(command, words, break - 1)
      BY <2>1 DEF EndsAt
    <2>5. break % 2 = 1 <=> (break - 1) % 2 = 0
      BY <2>1
    <2>. QED  BY <1>3, <1>6, <2>1, <2>2, <2>3, <2>4, <2>5 DEF break
  <1>. QED  BY <1>5, <1>6

\* Pairs are what the syntax asks for.
LEMMA SyntaxPairs ==
  ASSUME NEW command \in CaseCommands \ {"server"}, NEW words \in Seq(CaseWords),
         (Break(words) - 1) % 2 = 0
  PROVE  Paired(command, words, Break(words) - 1) <=>
           /\ OptionPlaces(words)
                = PackageOptions(words) \cup BinaryOptions(words)
           /\ Cardinality(PackageOptions(words)) <= 1 /\ Cardinality(BinaryOptions(words)) <= 1
           /\ \A i \in OptionPlaces(words) :
                words[i + 1] \notin {"-p", "--package", "--bin", "--help", "\\xff"}
           /\ BinaryOptions(words) # {} => command \in TargetCommands
  <1>. DEFINE n == Break(words) - 1
              options == {j \in 1 .. n : j % 2 = 1}
              packages == PackageOptions(words)
              binaries == BinaryOptions(words)
              Is(i) == Selector(command, words[i])
  <1>1. n \in Nat /\ \A i \in 1 .. n : words[i] # "--"
    BY FirstBreak
  <1>2. /\ packages = {i \in options : words[i] \in {"--package", "-p"}}
        /\ binaries = {i \in options : words[i] = "--bin"}
    BY DEF PackageOptions, BinaryOptions, OptionPlaces
  <1>3. \A i \in options : /\ Is(i) = "package" <=> i \in packages
                           /\ Is(i) = "binary" <=> i \in binaries /\ command \in TargetCommands
                           /\ Is(i) \in {"package", "binary", NoName}
                           /\ i \in 1 .. n
    BY <1>2, Selectors
  <1>4. /\ Cardinality(packages) <= 1 <=> \A i, j \in packages : i = j
        /\ Cardinality(binaries) <= 1 <=> \A i, j \in binaries : i = j
    <2>1. packages \in SUBSET (1 .. n) /\ binaries \in SUBSET (1 .. n)
      BY <1>2
    <2>. QED  BY <1>1, <2>1, AtMostOnePosition
  <1>5. n % 2 = 0
    OBVIOUS
  <1>. HIDE DEF n
  <1>6. \A i \in options : i + 1 \in 1 .. n /\ (i + 1) % 2 # 1
    BY <1>1, <1>5
  <1>7. \A i \in 1 .. n : i % 2 # 1 => i - 1 \in options /\ (i - 1) + 1 = i
    BY <1>1
  <1>8. NoName # "package" /\ NoName # "binary"
    BY Selectors
  <1>9. \A i \in 1 .. n : words[i] \notin Dashed \cup NotUnicode <=>
                            words[i] \notin {"-p", "--package", "--bin", "--help", "\\xff"}
    BY <1>1 DEF Dashed, NotUnicode
  <1>10. \A i \in options : i \in 1 .. n /\ i % 2 = 1
    OBVIOUS
  <1>11. \A i \in 1 .. n : i % 2 = 1 => i \in options
    OBVIOUS
  <1>12. packages \subseteq options /\ binaries \subseteq options /\ packages \cap binaries = {}
    BY <1>2
  <1>. HIDE DEF options, packages, binaries, Is
  <1>13. ASSUME Paired(command, words, n)
         PROVE  /\ options = packages \cup binaries
                /\ \A i, j \in packages : i = j
                /\ \A i, j \in binaries : i = j
                /\ \A i \in options : words[i + 1] \notin {"-p", "--package", "--bin", "--help", "\\xff"}
                /\ binaries # {} => command \in TargetCommands
    <2>1. \A i \in options : Is(i) # NoName
      BY <1>10, <1>13 DEF Paired, Is
    <2>2. options = packages \cup binaries
      BY <1>3, <1>12, <2>1
    <2>3. \A i \in binaries : Is(i) = "binary" /\ command \in TargetCommands
      BY <1>3, <1>8, <1>12, <2>1
    <2>4. \A i, j \in options : j < i => Is(j) # Is(i)
      <3>1. \A i, j \in options : j < i => j \in 1 .. i - 1
        BY <1>1, <1>10
      <3>. QED  BY <1>10, <1>13, <3>1 DEF Paired, Is
    <2>5. \A i, j \in options : Is(i) = Is(j) => i = j
      BY <1>1, <1>10, <2>4
    <2>6. \A i, j \in packages : i = j
      BY <1>3, <1>12, <2>5
    <2>7. \A i, j \in binaries : i = j
      BY <1>12, <2>3, <2>5
    <2>8. \A i \in options : words[i + 1] \notin Dashed \cup NotUnicode
      BY <1>6, <1>13 DEF Paired
    <2>9. \A i \in options : words[i + 1] \notin {"-p", "--package", "--bin", "--help", "\\xff"}
      BY <1>6, <1>9, <2>8
    <2>. QED  BY <2>2, <2>3, <2>6, <2>7, <2>9
  <1>14. ASSUME options = packages \cup binaries,
                \A i, j \in packages : i = j,
                \A i, j \in binaries : i = j,
                \A i \in options : words[i + 1] \notin {"-p", "--package", "--bin", "--help", "\\xff"},
                binaries # {} => command \in TargetCommands
         PROVE  Paired(command, words, n)
    <2>1. ASSUME NEW i \in options
          PROVE  Is(i) # NoName /\ \A j \in 1 .. i - 1 : j % 2 = 1 => Is(j) # Is(i)
      <3>1. \A j \in 1 .. i - 1 : j \in 1 .. n /\ j # i
        BY <1>1, <1>10
      <3>2. \A j \in 1 .. i - 1 : j % 2 = 1 => j \in options /\ j # i
        BY <1>11, <3>1
      <3>3. Is(i) # NoName
        BY <1>3, <1>8, <1>14, <2>1
      <3>4. \A j \in options : Is(j) = Is(i) => j = i
        BY <1>3, <1>8, <1>14, <2>1, <3>3
      <3>. QED  BY <3>2, <3>3, <3>4
    <2>2. ASSUME NEW i \in 1 .. n, i % 2 # 1 PROVE words[i] \notin Dashed \cup NotUnicode
      BY <1>7, <1>9, <1>14, <2>2
    <2>3. ASSUME NEW i \in 1 .. n, i % 2 = 1
          PROVE  /\ Selector(command, words[i]) # NoName
                 /\ \A j \in 1 .. i - 1 : j % 2 = 1 => Selector(command, words[j]) # Selector(command, words[i])
      BY <1>11, <2>1, <2>3 DEF Is
    <2>. QED  BY <2>2, <2>3 DEF Paired
  <1>15. /\ OptionPlaces(words) = options
         /\ PackageOptions(words) = packages /\ BinaryOptions(words) = binaries
         /\ Break(words) - 1 = n
    BY DEF OptionPlaces, options, packages, binaries, n
  <1>. QED  BY <1>4, <1>13, <1>14, <1>15

\* The value given to a selector is that of its option.
LEMMA SyntaxValues ==
  ASSUME NEW command \in CaseCommands \ {"server"}, NEW words \in Seq(CaseWords),
         (Break(words) - 1) % 2 = 0, Paired(command, words, Break(words) - 1)
  PROVE  LET n == Break(words) - 1
         IN  /\ Given(command, words, n, "package") =
                  IF PackageOptions(words) # {} THEN ValueOf(words, PackageOptions(words)) ELSE NoName
             /\ Given(command, words, n, "binary") =
                  IF BinaryOptions(words) # {} THEN ValueOf(words, BinaryOptions(words)) ELSE NoName
  <1>. DEFINE n == Break(words) - 1
              options == {j \in 1 .. n : j % 2 = 1}
              packages == PackageOptions(words)
              binaries == BinaryOptions(words)
              Chosen(i, selector) == i \in 1 .. n - 1 /\ i % 2 = 1 /\ Selector(command, words[i]) = selector
  <1>1. n \in Nat /\ n % 2 = 0
    BY FirstBreak
  <1>2. /\ packages = {i \in options : words[i] \in {"--package", "-p"}}
        /\ binaries = {i \in options : words[i] = "--bin"}
    BY DEF PackageOptions, BinaryOptions, OptionPlaces
  <1>3. binaries # {} => command \in TargetCommands
    BY SyntaxPairs
  <1>. HIDE DEF n
  <1>4. \A i : i \in options <=> i \in 1 .. n - 1 /\ i % 2 = 1
    BY <1>1
  <1>5. \A i : Chosen(i, "package") <=> i \in packages
    BY <1>2, <1>4, Selectors
  <1>6. \A i : Chosen(i, "binary") <=> i \in binaries
    BY <1>2, <1>3, <1>4, Selectors
  <1>. HIDE DEF packages, binaries, options
  <1>7. ASSUME NEW selector, NEW positions, \A i : Chosen(i, selector) <=> i \in positions
        PROVE  Given(command, words, n, selector) =
                 IF positions # {} THEN ValueOf(words, positions) ELSE NoName
    <2>1. (CHOOSE i : Chosen(i, selector)) = (CHOOSE i : i \in positions)
      BY <1>7
    <2>2. (CHOOSE i \in 1 .. n - 1 : i % 2 = 1 /\ Selector(command, words[i]) = selector)
            = (CHOOSE i \in positions : TRUE)
      BY <2>1
    <2>3. (\E i \in 1 .. n - 1 : i % 2 = 1 /\ Selector(command, words[i]) = selector)
            <=> positions # {}
      BY <1>7
    <2>. QED  BY <2>2, <2>3 DEF Given, ValueOf
  <1>8. Given(command, words, n, "package") = IF packages # {} THEN ValueOf(words, packages) ELSE NoName
    BY <1>5, <1>7
  <1>9. Given(command, words, n, "binary") = IF binaries # {} THEN ValueOf(words, binaries) ELSE NoName
    BY <1>6, <1>7
  <1>. QED  BY <1>8, <1>9 DEF n, packages, binaries

\* The syntax of a line, and what a line of it stands for.
LEMMA SyntaxOfCases ==
  ASSUME NEW command \in CaseCommands, NEW words \in Seq(CaseWords)
  PROVE  LET parsed == Parsed(command, words)
         IN  /\ Syntax(command, words) <=> ParseAccepted(command, words)
             /\ Syntax(command, words) =>
                  /\ parsed.package = IF PackageOptions(words) # {}
                                      THEN ValueOf(words, PackageOptions(words)) ELSE NoName
                  /\ parsed.binary = IF BinaryOptions(words) # {}
                                     THEN ValueOf(words, BinaryOptions(words)) ELSE NoName
                  /\ parsed.arguments = SubSeq(words, Break(words) + 1, Len(words))
  <1>. DEFINE n == Len(words)
              break == Break(words)
              parsed == Parsed(command, words)
  <1>1. CASE command = "server"
    BY <1>1 DEF Syntax, ParseAccepted, TargetCommands, DatabaseCommands, ApplicationCommands,
                InspectionCommands
  <1>2. CASE command # "server"
    <2>1. command \in CaseCommands \ {"server"}
      BY <1>2
    <2>2. /\ command \in {"run", "dev"} <=> command \in ApplicationCommands
          /\ command \in {"run", "dev", "doctor", "graph"} <=> command \in TargetCommands
          /\ command \in TargetCommands \cup DatabaseCommands
      BY <2>1 DEF CaseCommands, ApplicationCommands, TargetCommands, DatabaseCommands, InspectionCommands
    <2>3. (break - 1) % 2 = 0 =>
            (Paired(command, words, break - 1) <=>
               /\ OptionPlaces(words) = PackageOptions(words) \cup BinaryOptions(words)
               /\ Cardinality(PackageOptions(words)) <= 1 /\ Cardinality(BinaryOptions(words)) <= 1
               /\ \A i \in OptionPlaces(words) :
                    words[i + 1] \notin {"-p", "--package", "--bin", "--help", "\\xff"}
               /\ BinaryOptions(words) # {} => command \in TargetCommands)
      BY <2>1, SyntaxPairs
    <2>4. ParseAccepted(command, words) <=>
            /\ (break - 1) % 2 = 0
            /\ Paired(command, words, break - 1)
            /\ Breaks(words) # {} => command \in ApplicationCommands
      BY <2>1, AcceptedSyntax
    <2>5. Syntax(command, words) <=> ParseAccepted(command, words)
      BY <1>2, <2>2, <2>3, <2>4 DEF Syntax
    <2>6. ASSUME ParseAccepted(command, words)
          PROVE  Selected(command, words, break - 1, parsed)
                   /\ parsed.arguments = SubSeq(words, break + 1, n)
      <3>1. \A i \in 1 .. Len(words) : words[i] # NoName
        BY NoNameGiven
      <3>2. /\ n % 2 = 0 /\ Paired(command, words, n) =>
                 Selected(command, words, n, parsed) /\ parsed.arguments = <<>>
            /\ \A b \in 1 .. n : EndsAt(command, words, b) =>
                 Selected(command, words, b - 1, parsed) /\ parsed.arguments = SubSeq(words, b + 1, n)
        BY <2>2, <3>1, LinesAccepted
      <3>3. /\ n \in Nat /\ break \in 1 .. n + 1
            /\ Breaks(words) = {} <=> break = n + 1
            /\ Breaks(words) # {} => break \in 1 .. n /\ words[break] = "--"
        BY FirstBreak
      <3>. HIDE DEF parsed, break
      <3>4. CASE Breaks(words) = {}
        <4>1. break = n + 1 /\ break - 1 = n
          BY <3>3, <3>4
        <4>2. SubSeq(words, break + 1, n) = <<>>
          BY <4>1
        <4>. QED  BY <2>4, <2>6, <3>2, <4>1, <4>2
      <3>5. CASE Breaks(words) # {}
        <4>1. break \in 1 .. n /\ words[break] = "--"
          BY <3>3, <3>5
        <4>2. (break - 1) % 2 = 0 => break % 2 = 1
          BY <4>1
        <4>3. EndsAt(command, words, break)
          BY <2>4, <2>6, <3>5, <4>1, <4>2 DEF EndsAt
        <4>. QED  BY <3>2, <4>1, <4>3
      <3>. QED  BY <3>4, <3>5
    <2>7. ASSUME ParseAccepted(command, words)
          PROVE  /\ parsed.package = IF PackageOptions(words) # {}
                                     THEN ValueOf(words, PackageOptions(words)) ELSE NoName
                 /\ parsed.binary = IF BinaryOptions(words) # {}
                                    THEN ValueOf(words, BinaryOptions(words)) ELSE NoName
      BY <2>1, <2>4, <2>6, <2>7, SyntaxValues DEF Selected
    <2>. QED  BY <2>5, <2>6, <2>7
  <1>. QED  BY <1>1, <1>2

-----------------------------------------------------------------------------
\* A case of the command line: a workspace of at most two packages, all of them
\* local, default members and named as they are.
CommandCaseOK(case) ==
  /\ case.command \in CaseCommands
  /\ case.arguments \in Seq(CaseWords)
  /\ case.success \in BOOLEAN
  /\ case.outcome \in {0, 3, 256}
  /\ case.project.members \in {{"app"}, {"app", "tool"}}
  /\ case.project.default_members = case.project.members
  /\ case.project.here \in {NoName, "app"}
  /\ \A id \in case.project.members :
       /\ case.project.packages[id].name = id
       /\ case.project.packages[id].binaries \subseteq {"app", "web"}
       /\ case.project.packages[id].default_run \in {NoName, "app"}

\* The members a line may mean, and their binaries.
ChosenMembers(project, name) ==
  {id \in project.members :
     IF name # NoName THEN project.packages[id].name = name
     ELSE project.here = NoName \/ project.here = id}
TargetsOf(project, chosen, name) ==
  {t \in chosen \X {"app", "web"} :
     /\ t[2] \in project.packages[t[1]].binaries
     /\ IF name # NoName THEN t[2] = name
        ELSE project.packages[t[1]].default_run \in {NoName, t[2]}}

\* Two are finitely many.
LEMMA TwoFinite ==
  ASSUME NEW x, NEW y
  PROVE  IsFiniteSet({x, y})
  <1>1. IsFiniteSet({x})
    BY FS_Singleton
  <1>2. {x, y} = {x} \cup {y}
    OBVIOUS
  <1>. QED  BY <1>1, <1>2, FS_AddElement

\* There is a package to act on exactly if there is one that the line may mean.
LEMMA OneMember ==
  ASSUME NEW case, CommandCaseOK(case), NEW name
  PROVE  LET project == case.project
             chosen == ChosenMembers(project, name)
         IN  /\ PackageAccepted(project, name) <=> Cardinality(chosen) = 1
             /\ PackageAccepted(project, name) => chosen = {ResolvePackage(project, name)}
  <1>. DEFINE project == case.project
              chosen == ChosenMembers(project, name)
  <1>1. /\ project.members \in {{"app"}, {"app", "tool"}}
        /\ project.default_members = project.members
        /\ project.here \in {NoName, "app"}
        /\ \A id \in project.members : project.packages[id].name = id
    BY DEF CommandCaseOK
  <1>. HIDE DEF project
  <1>2. Cardinality({}) = 0 /\ \A x : Cardinality({x}) = 1
    BY FS_EmptySet, FS_Singleton
  <1>3. IsFiniteSet(chosen)
    <2>1. IsFiniteSet({"app", "tool"})
      BY TwoFinite
    <2>2. chosen \subseteq {"app", "tool"}
      BY <1>1 DEF ChosenMembers
    <2>. QED  BY <2>1, <2>2, FS_Subset
  <1>4. Cardinality(chosen) = 1 => \E x : chosen = {x}
    BY <1>3, FS_Singleton
  <1>5. CASE name # NoName
    <2>1. chosen = {id \in project.members : id = name}
      BY <1>1, <1>5 DEF ChosenMembers
    <2>2. NamedMembers(project, name) = chosen
      BY <1>1, <2>1 DEF NamedMembers
    <2>3. CASE chosen = {}
      <3>1. ~PackageAccepted(project, name)
        BY <1>5, <2>2, <2>3 DEF PackageAccepted
      <3>2. Cardinality(chosen) # 1
        BY <1>2, <2>3
      <3>. QED  BY <3>1, <3>2 DEF project
    <2>4. CASE chosen # {}
      <3>1. chosen = {name}
        BY <2>1, <2>4
      <3>2. ResolvePackage(project, name) \in chosen
        BY <1>5, <2>2, <3>1 DEF ResolvePackage
      <3>3. PackageAccepted(project, name) /\ Cardinality(chosen) = 1
        BY <1>2, <1>5, <2>2, <2>4, <3>1 DEF PackageAccepted
      <3>. HIDE DEF chosen
      <3>. QED  BY <3>1, <3>2, <3>3 DEF chosen, project
    <2>. QED  BY <2>3, <2>4
  <1>6. CASE name = NoName /\ project.here # NoName
    <2>1. chosen = {project.here}
      BY <1>1, <1>6 DEF ChosenMembers, NoName
    <2>2. PackageAccepted(project, name) /\ ResolvePackage(project, name) = project.here
      BY <1>6 DEF PackageAccepted, ResolvePackage
    <2>. QED  BY <1>2, <2>1, <2>2 DEF project
  <1>7. CASE name = NoName /\ project.here = NoName
    <2>1. chosen = project.default_members
      BY <1>1, <1>7 DEF ChosenMembers
    <2>2. PackageAccepted(project, name) <=> Cardinality(chosen) = 1
      BY <1>7, <2>1 DEF PackageAccepted
    <2>3. Cardinality(chosen) = 1 => chosen = {ResolvePackage(project, name)}
      BY <1>4, <1>7, <2>1 DEF ResolvePackage
    <2>. QED  BY <2>2, <2>3 DEF project
  <1>. QED  BY <1>5, <1>6, <1>7

\* There is a binary of it to run exactly if there is one that the line may mean.
LEMMA OneTarget ==
  ASSUME NEW case, CommandCaseOK(case), NEW id \in case.project.members, NEW name
  PROVE  LET project == case.project
             package == project.packages[id]
             targets == TargetsOf(project, {id}, name)
         IN  /\ BinaryAccepted(package, name) <=> Cardinality(targets) = 1
             /\ BinaryAccepted(package, name) =>
                  /\ targets = {<<id, ResolveBinary(package, name)>>}
                  /\ ResolveBinary(package, name) \in {"app", "web"}
  <1>. DEFINE project == case.project
              package == project.packages[id]
              targets == TargetsOf(project, {id}, name)
              names == {b \in package.binaries :
                          IF name # NoName THEN b = name ELSE package.default_run \in {NoName, b}}
  <1>1. package.binaries \subseteq {"app", "web"} /\ package.default_run \in {NoName, "app"}
    BY DEF CommandCaseOK
  <1>2. \A t : t \in targets <=> \E b \in names : t = <<id, b>>
    BY <1>1 DEF TargetsOf
  <1>3. /\ BinaryAccepted(package, name) <=> Cardinality(names) = 1
        /\ BinaryAccepted(package, name) => names = {ResolveBinary(package, name)}
    <2>. HIDE DEF package
    <2>1. IsFiniteSet(names)
      <3>1. IsFiniteSet({"app", "web"})
        BY TwoFinite
      <3>2. names \subseteq {"app", "web"}
        BY <1>1
      <3>. QED  BY <3>1, <3>2, FS_Subset
    <2>2. Cardinality(names) = 1 <=> \E x : names = {x}
      BY <2>1, FS_Singleton
    <2>3. CASE name # NoName
      <3>1. names = {b \in package.binaries : b = name}
        BY <2>3
      <3>2. name \in package.binaries <=> names = {name}
        BY <3>1
      <3>3. (\E x : names = {x}) => name \in package.binaries
        BY <3>1
      <3>. QED  BY <2>2, <2>3, <3>2, <3>3 DEF BinaryAccepted, ResolveBinary
    <2>4. CASE name = NoName /\ package.default_run # NoName
      <3>1. names = {b \in package.binaries : b = package.default_run}
        BY <2>4
      <3>2. package.default_run \in package.binaries <=> names = {package.default_run}
        BY <3>1
      <3>3. (\E x : names = {x}) => package.default_run \in package.binaries
        BY <3>1
      <3>. QED  BY <2>2, <2>4, <3>2, <3>3 DEF BinaryAccepted, ResolveBinary
    <2>5. CASE name = NoName /\ package.default_run = NoName
      <3>1. names = package.binaries
        BY <2>5
      <3>2. (\E x : names = {x}) => names = {CHOOSE only \in package.binaries : TRUE}
        BY <3>1
      <3>. QED  BY <2>2, <2>5, <3>1, <3>2 DEF BinaryAccepted, ResolveBinary
    <2>. QED  BY <2>3, <2>4, <2>5
  <1>4. Cardinality(names) = 1 <=> Cardinality(targets) = 1
    <2>. HIDE DEF names, targets
    <2>1. IsFiniteSet(names)
      <3>1. IsFiniteSet({"app", "web"})
        BY TwoFinite
      <3>2. names \subseteq {"app", "web"}
        BY <1>1 DEF names
      <3>. QED  BY <3>1, <3>2, FS_Subset
    <2>2. IsFiniteSet(targets)
      <3>1. IsFiniteSet({<<id, "app">>, <<id, "web">>})
        BY TwoFinite
      <3>2. targets \subseteq {<<id, "app">>, <<id, "web">>}
        BY <1>1, <1>2 DEF names
      <3>. QED  BY <3>1, <3>2, FS_Subset
    <2>3. Cardinality(names) = 1 <=> \E x : names = {x}
      BY <2>1, FS_Singleton
    <2>4. Cardinality(targets) = 1 <=> \E t : targets = {t}
      BY <2>2, FS_Singleton
    <2>5. ASSUME NEW x, names = {x} PROVE targets = {<<id, x>>}
      BY <1>2, <2>5
    <2>6. ASSUME NEW t, targets = {t} PROVE \E x : names = {x}
      <3>1. PICK x \in names : t = <<id, x>>
        BY <1>2, <2>6
      <3>2. \A y \in names : <<id, y>> = t
        BY <1>2, <2>6
      <3>3. \A y \in names : y = x
        BY <3>1, <3>2
      <3>. QED  BY <3>1, <3>3
    <2>. QED  BY <2>3, <2>4, <2>5, <2>6
  <1>5. ASSUME NEW x, names = {x} PROVE targets = {<<id, x>>} /\ x \in {"app", "web"}
    <2>1. x \in {"app", "web"}
      BY <1>1, <1>5
    <2>. HIDE DEF names, targets
    <2>2. targets = {<<id, x>>}
      BY <1>2, <1>5
    <2>. QED  BY <2>1, <2>2
  <1>. HIDE DEF names
  <1>. QED  BY <1>3, <1>4, <1>5

\* Four messages, one after the other.
FourMessages(s, a, b, c, d) ==
  s \in Seq({a, b, c, d}) /\ Len(s) = 4 /\ s[1] = a /\ s[2] = b /\ s[3] = c /\ s[4] = d

\* The messages of a build are four, one after the other.
LEMMA FourInARow ==
  ASSUME NEW a, NEW b, NEW c, NEW d
  PROVE  FourMessages(<<a>> \o <<b, c>> \o <<d>>, a, b, c, d)
  <1>. DEFINE M == {a, b, c, d}
              q == <<a>> \o <<b, c>>
              s == q \o <<d>>
  <1>1. <<a>> \in Seq(M) /\ <<b, c>> \in Seq(M) /\ <<d>> \in Seq(M)
    OBVIOUS
  <1>2. /\ Len(<<a>>) = 1 /\ Len(<<b, c>>) = 2 /\ Len(<<d>>) = 1
        /\ <<a>>[1] = a /\ <<b, c>>[1] = b /\ <<b, c>>[2] = c /\ <<d>>[1] = d
    OBVIOUS
  <1>. HIDE DEF M
  <1>3. /\ q \in Seq(M) /\ Len(q) = 3
        /\ \A k \in 1 .. 3 : q[k] = IF k <= 1 THEN a ELSE <<b, c>>[k - 1]
    BY <1>1, <1>2, Joined
  <1>. HIDE DEF q
  <1>4. q[1] = a /\ q[2] = b /\ q[3] = c
    BY <1>2, <1>3
  <1>5. /\ s \in Seq(M) /\ Len(s) = 4
        /\ \A k \in 1 .. 4 : s[k] = IF k <= 3 THEN q[k] ELSE <<d>>[k - 3]
    <2>1. /\ s \in Seq(M) /\ Len(s) = Len(q) + Len(<<d>>)
          /\ \A k \in 1 .. Len(q) + Len(<<d>>) :
               s[k] = IF k <= Len(q) THEN q[k] ELSE <<d>>[k - Len(q)]
      BY <1>1, <1>3, Joined
    <2>2. Len(q) + Len(<<d>>) = 4 /\ Len(q) = 3
      BY <1>2, <1>3
    <2>. HIDE DEF s
    <2>. QED  BY <2>1, <2>2
  <1>. HIDE DEF s
  <1>6. s[1] = a /\ s[2] = b /\ s[3] = c /\ s[4] = d
    BY <1>2, <1>4, <1>5
  <1>. QED  BY <1>5, <1>6 DEF FourMessages, M, s, q

\* A build of a case that succeeds makes the executable of its target, and Cargo
\* says so.
LEMMA BuildsMake ==
  ASSUME NEW package \in {"app", "tool"}, NEW binary \in {"app", "web"}, NEW success \in BOOLEAN
  PROVE  LET application == [package |-> package, binary |-> binary]
             build == Builds(success)[application]
         IN  /\ BuildSucceeds(application, build) <=> success
             /\ success => Collected(application, build.messages).executable = Made(package, binary)
  <1>. DEFINE application == [package |-> package, binary |-> binary]
              build == Builds(success)[application]
  <1>1. application \in [package : {"app", "tool"}, binary : {"app", "web"}]
    OBVIOUS
  <1>2. application.package = package /\ application.binary = binary
    OBVIOUS
  <1>3. Made(package, binary) # NoName
    BY DEF Made, Executables, NoName
  <1>. SUFFICES /\ BuildSucceeds(application, build) <=> success
                /\ success => Collected(application, build.messages).executable = Made(package, binary)
    OBVIOUS
  <1>. HIDE DEF application
  <1>4. CASE ~success
    <2>1. build.status = 101
      BY <1>1, <1>4 DEF Builds
    <2>. HIDE DEF build
    <2>2. ~BuildSucceeds(application, build)
      BY <2>1 DEF BuildSucceeds
    <2>. QED  BY <1>4, <2>2
  <1>5. CASE success
    <2>. DEFINE library == Artifact(package, package, NoName)
                made == Artifact(package, binary, Made(package, binary))
                other == Artifact(package, binary, NoName)
                messages == <<library>> \o <<made, other>> \o <<Finished(TRUE)>>
    <2>1. build.status = 0 /\ build.messages = messages
      <3>1. success = TRUE
        BY <1>5
      <3>2. build = [status |-> 0, messages |-> messages]
        BY <1>1, <1>2, <3>1 DEF Builds
      <3>. HIDE DEF build, messages
      <3>. QED  BY <3>2
    <2>2. /\ library.reason = "compiler-artifact" /\ library.executable = NoName
          /\ made.reason = "compiler-artifact" /\ made.executable = Made(package, binary)
          /\ made.package = package /\ made.target = binary
          /\ other.reason = "compiler-artifact" /\ other.executable = NoName
          /\ Finished(TRUE).reason = "build-finished" /\ Finished(TRUE).success = TRUE
      BY DEF Artifact, Finished
    <2>. HIDE DEF library, made, other
    <2>3. /\ messages \in Seq({library, made, other, Finished(TRUE)}) /\ Len(messages) = 4
          /\ messages[1] = library /\ messages[2] = made /\ messages[3] = other
          /\ messages[4] = Finished(TRUE)
      <3>1. FourMessages(messages, library, made, other, Finished(TRUE))
        BY FourInARow
      <3>. HIDE DEF messages
      <3>. QED  BY <3>1 DEF FourMessages
    <2>. HIDE DEF messages, build
    <2>5. PICK p : Collects(application, messages, 4, p) /\ Collected(application, messages) = p[4]
      BY <2>3, CollectedInSteps
    <2>6. /\ p[0] = NothingCollected
          /\ p[1] = Collect(application, p[0], library)
          /\ p[2] = Collect(application, p[1], made)
          /\ p[3] = Collect(application, p[2], other)
          /\ p[4] = Collect(application, p[3], Finished(TRUE))
      <3>1. \A k \in 0 .. 3 : p[k + 1] = Collect(application, p[k], messages[k + 1])
        BY <2>5 DEF Collects
      <3>2. p[0] = NothingCollected
        BY <2>5 DEF Collects
      <3>3. p[0 + 1] = Collect(application, p[0], messages[0 + 1])
        BY <3>1
      <3>4. p[1 + 1] = Collect(application, p[1], messages[1 + 1])
        BY <3>1
      <3>5. p[2 + 1] = Collect(application, p[2], messages[2 + 1])
        BY <3>1
      <3>6. p[3 + 1] = Collect(application, p[3], messages[3 + 1])
        BY <3>1
      <3>7. 0 + 1 = 1 /\ 1 + 1 = 2 /\ 2 + 1 = 3 /\ 3 + 1 = 4
        OBVIOUS
      <3>. QED  BY <2>3, <3>2, <3>3, <3>4, <3>5, <3>6, <3>7
    <2>7. p[1] = NothingCollected
      BY <2>2, <2>6 DEF Collect
    <2>8. p[2] = [executable |-> Made(package, binary), successful |-> FALSE]
      <3>1. p[2] = [NothingCollected EXCEPT !.executable = Made(package, binary)]
        BY <1>2, <1>3, <2>2, <2>6, <2>7 DEF Collect
      <3>. QED  BY <3>1 DEF NothingCollected
    <2>9. p[3] = p[2]
      BY <2>2, <2>6 DEF Collect
    <2>10. p[4] = [executable |-> Made(package, binary), successful |-> TRUE]
      <3>1. p[4] = [p[3] EXCEPT !.successful = TRUE]
        BY <2>2, <2>6 DEF Collect
      <3>2. p[4] = [[executable |-> Made(package, binary), successful |-> FALSE] EXCEPT !.successful = TRUE]
        BY <2>8, <2>9, <3>1
      <3>. QED  BY <3>2
    <2>11. Collected(application, build.messages) = [executable |-> Made(package, binary), successful |-> TRUE]
      BY <2>1, <2>5, <2>10
    <2>12. BuildSucceeds(application, build)
      BY <1>3, <2>1, <2>11 DEF BuildSucceeds
    <2>. QED  BY <1>5, <2>11, <2>12
  <1>. QED  BY <1>4, <1>5

\* The target of a line is resolved exactly if there is one it may mean.
LEMMA ResolvedTarget ==
  ASSUME NEW case, CommandCaseOK(case), NEW parsed
  PROVE  LET project == case.project
             chosen == ChosenMembers(project, parsed.package)
             targets == TargetsOf(project, chosen, parsed.binary)
             application == ResolveApplication(project, parsed)
         IN  /\ ApplicationAccepted(project, parsed) <=>
                  Cardinality(chosen) = 1 /\ Cardinality(targets) = 1
             /\ ApplicationAccepted(project, parsed) =>
                  \E id \in {"app", "tool"}, b \in {"app", "web"} :
                    application = [package |-> id, binary |-> b] /\ <<id, b>> \in targets
  <1>. DEFINE project == case.project
              chosen == ChosenMembers(project, parsed.package)
              targets == TargetsOf(project, chosen, parsed.binary)
              id == ResolvePackage(project, parsed.package)
              b == ResolveBinary(project.packages[id], parsed.binary)
  <1>1. /\ PackageAccepted(project, parsed.package) <=> Cardinality(chosen) = 1
        /\ PackageAccepted(project, parsed.package) => chosen = {id}
    BY OneMember
  <1>2. CASE ~PackageAccepted(project, parsed.package)
    BY <1>1, <1>2 DEF ApplicationAccepted
  <1>3. CASE PackageAccepted(project, parsed.package)
    <2>1. chosen = {id}
      BY <1>1, <1>3
    <2>2. id \in project.members /\ id \in {"app", "tool"}
      <3>1. id \in project.members
        BY <2>1 DEF ChosenMembers
      <3>2. project.members \subseteq {"app", "tool"}
        BY DEF CommandCaseOK
      <3>. QED  BY <3>1, <3>2
    <2>3. targets = TargetsOf(project, {id}, parsed.binary)
      BY <2>1
    <2>. HIDE DEF targets, chosen, id
    <2>4. /\ BinaryAccepted(project.packages[id], parsed.binary) <=> Cardinality(targets) = 1
          /\ BinaryAccepted(project.packages[id], parsed.binary) =>
               targets = {<<id, b>>} /\ b \in {"app", "web"}
      <3>1. LET package == project.packages[id]
                found == TargetsOf(project, {id}, parsed.binary)
            IN  /\ BinaryAccepted(package, parsed.binary) <=> Cardinality(found) = 1
                /\ BinaryAccepted(package, parsed.binary) =>
                     /\ found = {<<id, ResolveBinary(package, parsed.binary)>>}
                     /\ ResolveBinary(package, parsed.binary) \in {"app", "web"}
        <4>1. id \in case.project.members
          BY <2>2
        <4>. QED  BY ONLY <4>1, CommandCaseOK(case), OneTarget
      <3>. QED  BY ONLY <2>3, <3>1
    <2>5. ResolveApplication(project, parsed) = [package |-> id, binary |-> b]
      BY DEF ResolveApplication, id
    <2>6. ApplicationAccepted(project, parsed) <=> BinaryAccepted(project.packages[id], parsed.binary)
      BY <1>3 DEF ApplicationAccepted, id
    <2>. HIDE DEF b
    <2>7. ApplicationAccepted(project, parsed) =>
            \E i \in {"app", "tool"}, c \in {"app", "web"} :
              ResolveApplication(project, parsed) = [package |-> i, binary |-> c] /\ <<i, c>> \in targets
      BY <2>2, <2>4, <2>5, <2>6
    <2>. QED  BY <1>1, <1>3, <2>4, <2>6, <2>7 DEF targets, chosen
  <1>. QED  BY <1>2, <1>3

\* What a command that the line has the syntax of comes to.
LEMMA OutcomeOfCase ==
  ASSUME NEW case, CommandCaseOK(case), NEW parsed,
         parsed = Parsed(case.command, case.arguments),
         ParseAccepted(case.command, case.arguments)
  PROVE  LET command == case.command
             chosen  == ChosenMembers(case.project, parsed.package)
             targets == TargetsOf(case.project, chosen, parsed.binary)
             clear   == Cardinality(chosen) = 1 /\ Cardinality(targets) = 1
             effect  == Outcome(command, case.arguments, case.project, Builds(case.success), case.outcome)
             starts  == clear /\ case.success /\ command \in {"run", "doctor", "graph"}
             ready   == \/ starts
                        \/ command = "dev" /\ clear
                        \/ command \in {"db migrate", "db rollback"} /\ Cardinality(chosen) = 1
         IN  /\ starts => \E t \in targets :
                  effect.process = [executable |-> Made(t[1], t[2]), arguments |-> parsed.arguments]
             /\ ~starts => effect.process = NoProcess
             /\ effect.code = IF ready /\ (case.outcome = 0 \/ (command = "run" /\ case.outcome = 3))
                              THEN case.outcome ELSE 1
  <1>. DEFINE command == case.command
              project == case.project
              chosen  == ChosenMembers(project, parsed.package)
              targets == TargetsOf(project, chosen, parsed.binary)
              clear   == Cardinality(chosen) = 1 /\ Cardinality(targets) = 1
              effect  == Outcome(command, case.arguments, project, Builds(case.success), case.outcome)
              application == ResolveApplication(project, parsed)
              build == Builds(case.success)[application]
              process == [executable |-> Collected(application, build.messages).executable,
                          arguments |-> parsed.arguments]
  <1>1. command \in CaseCommands /\ case.success \in BOOLEAN /\ case.outcome \in {0, 3, 256}
    BY DEF CommandCaseOK
  <1>2. command \in {"run", "dev", "doctor", "graph", "db migrate", "db rollback"}
    BY <1>1 DEF ParseAccepted, CaseCommands, TargetCommands, DatabaseCommands, ApplicationCommands,
                InspectionCommands
  <1>3. command \in DatabaseCommands <=> command \in {"db migrate", "db rollback"}
    BY <1>2 DEF DatabaseCommands
  <1>4. PackageAccepted(project, parsed.package) <=> Cardinality(chosen) = 1
    BY OneMember
  <1>5. ApplicationAccepted(project, parsed) <=> clear
    BY ResolvedTarget
  <1>6. clear =>
          /\ BuildSucceeds(application, build) <=> case.success
          /\ case.success => \E t \in targets :
               process = [executable |-> Made(t[1], t[2]), arguments |-> parsed.arguments]
    <2>. SUFFICES ASSUME clear
                  PROVE  /\ BuildSucceeds(application, build) <=> case.success
                         /\ case.success => \E t \in targets :
                              process = [executable |-> Made(t[1], t[2]), arguments |-> parsed.arguments]
      OBVIOUS
    <2>1. PICK id \in {"app", "tool"}, b \in {"app", "web"} :
            application = [package |-> id, binary |-> b] /\ <<id, b>> \in targets
      BY <1>5, ResolvedTarget
    <2>. HIDE DEF targets, clear, chosen
    <2>2. /\ BuildSucceeds(application, build) <=> case.success
          /\ case.success => Collected(application, build.messages).executable = Made(id, b)
      BY <1>1, <2>1, BuildsMake
    <2>3. <<id, b>>[1] = id /\ <<id, b>>[2] = b
      OBVIOUS
    <2>. HIDE DEF build, application
    <2>. QED  BY <2>1, <2>2, <2>3
  <1>7. effect =
          IF command \in DatabaseCommands
          THEN DoneIf(PackageAccepted(project, parsed.package) /\ case.outcome = 0)
          ELSE IF ~ApplicationAccepted(project, parsed) THEN DoneIf(FALSE)
          ELSE IF command = "dev" THEN DoneIf(case.outcome = 0)
          ELSE IF ~BuildSucceeds(application, build) THEN DoneIf(FALSE)
          ELSE IF command = "run"
               THEN Exit(IF case.outcome \in 0 .. 255 THEN case.outcome ELSE 1, process)
          ELSE Exit(IF case.outcome = 0 THEN 0 ELSE 1, process)
    BY <1>2 DEF Outcome
  <1>8. \A code, started : Exit(code, started).code = code /\ Exit(code, started).process = started
    BY DEF Exit
  <1>9. \A done : DoneIf(done).process = NoProcess /\ DoneIf(done).code = IF done THEN 0 ELSE 1
    BY <1>8 DEF DoneIf
  <1>. DEFINE starts == clear /\ case.success /\ command \in {"run", "doctor", "graph"}
              ready == \/ starts
                       \/ command = "dev" /\ clear
                       \/ command \in {"db migrate", "db rollback"} /\ Cardinality(chosen) = 1
              Goal == /\ starts => \E t \in targets :
                           effect.process = [executable |-> Made(t[1], t[2]),
                                             arguments |-> parsed.arguments]
                      /\ ~starts => effect.process = NoProcess
                      /\ effect.code = IF ready /\ (case.outcome = 0 \/ (command = "run" /\ case.outcome = 3))
                                       THEN case.outcome ELSE 1
  <1>. SUFFICES Goal
    OBVIOUS
  <1>. HIDE DEF command, clear, effect, application, build, process, targets, chosen
  <1>10. CASE command \in {"db migrate", "db rollback"}
    BY <1>1, <1>3, <1>4, <1>7, <1>9, <1>10
  <1>11. CASE command = "dev"
    BY <1>1, <1>3, <1>5, <1>7, <1>9, <1>11
  <1>12. CASE command \in {"run", "doctor", "graph"}
    <2>1. ~ (command \in DatabaseCommands) /\ command # "dev" /\ (ready <=> starts)
      BY <1>3, <1>12
    <2>2. CASE ~starts
      <3>1. effect = DoneIf(FALSE)
        BY <1>5, <1>6, <1>7, <1>12, <2>1, <2>2
      <3>. QED  BY <1>9, <2>1, <2>2, <3>1
    <2>3. CASE starts
      <3>1. PICK t \in targets : process = [executable |-> Made(t[1], t[2]), arguments |-> parsed.arguments]
        BY <1>6, <2>3
      <3>2. effect = IF command = "run"
                     THEN Exit(IF case.outcome \in 0 .. 255 THEN case.outcome ELSE 1, process)
                     ELSE Exit(IF case.outcome = 0 THEN 0 ELSE 1, process)
        BY <1>5, <1>6, <1>7, <2>1, <2>3
      <3>3. effect.process = process
        BY <1>8, <3>2
      <3>4. effect.code = IF case.outcome = 0 \/ (command = "run" /\ case.outcome = 3)
                          THEN case.outcome ELSE 1
        BY <1>1, <1>8, <3>2
      <3>. QED  BY <2>1, <2>3, <3>1, <3>3, <3>4
    <2>. QED  BY <2>2, <2>3
  <1>. QED  BY <1>2, <1>10, <1>11, <1>12

\* A workspace of local packages has all of them as members.
HasMembers(project, packages, here) ==
  /\ project.members = DOMAIN packages /\ project.default_members = DOMAIN packages
  /\ project.packages = packages /\ project.here = here

\* The workspace of some packages has all of them as members.
LEMMA WorkspaceOf ==
  ASSUME NEW packages, NEW here, \A id \in DOMAIN packages : packages[id].local = TRUE
  PROVE  HasMembers(Workspace(packages, here), packages, here)
  <1>1. {id \in DOMAIN packages : packages[id].local} = DOMAIN packages
    OBVIOUS
  <1>. QED  BY <1>1 DEF Workspace, HasMembers

\* The packages of the cases.
TargetPackages(packages) ==
  /\ DOMAIN packages \in {{"app"}, {"app", "tool"}}
  /\ \A id \in DOMAIN packages :
       /\ packages[id].local = TRUE /\ packages[id].name = id
       /\ packages[id].binaries \subseteq {"app", "web"}
       /\ packages[id].default_run \in {NoName, "app"}

\* The packages of a case are those of its workspace.
LEMMA WorkspaceOfCase ==
  ASSUME NEW packages, TargetPackages(packages), NEW here \in {NoName, "app"},
         NEW case, case.project = Workspace(packages, here),
         case.command \in CaseCommands, case.arguments \in Seq(CaseWords),
         case.success \in BOOLEAN, case.outcome \in {0, 3, 256}
  PROVE  CommandCaseOK(case)
  <1>1. HasMembers(case.project, packages, here)
    <2>1. \A id \in DOMAIN packages : packages[id].local = TRUE
      BY DEF TargetPackages
    <2>2. HasMembers(Workspace(packages, here), packages, here)
      BY <2>1, WorkspaceOf
    <2>. QED  BY <2>2
  <1>. QED  BY <1>1 DEF CommandCaseOK, TargetPackages, HasMembers

\* The packages of a case are local and named as they are.
LocalPackage(package, name, binaries, default_run) ==
  /\ package.local = TRUE /\ package.name = name
  /\ package.binaries = binaries /\ package.default_run = default_run

\* Those of a case are.
LEMMA CasePackages ==
  ASSUME NEW name, NEW root \in {AppRoot, ToolRoot}, NEW binaries, NEW default_run, NEW needs
  PROVE  LocalPackage(Package(name, root, binaries, default_run, needs), name, binaries, default_run)
  <1>. DEFINE package == Package(name, root, binaries, default_run, needs)
  <1>1. root[1] = "ws"
    BY DEF AppRoot, ToolRoot
  <1>2. (root[1] = "ws") = TRUE
    BY <1>1
  <1>3. /\ package.local = (root[1] = "ws") /\ package.name = name
        /\ package.binaries = binaries /\ package.default_run = default_run
    BY DEF Package
  <1>. HIDE DEF package
  <1>4. LocalPackage(package, name, binaries, default_run)
    BY <1>2, <1>3 DEF LocalPackage
  <1>. QED  BY <1>4 DEF package

\* The command lines that are asked about are such cases.
LEMMA CommandCasesOK ==
  ASSUME NEW case \in CommandCases
  PROVE  CommandCaseOK(case)
  <1>1. \A words \in Lines : words \in Seq(CaseWords)
    <2>. SUFFICES ASSUME NEW words \in Lines PROVE words \in Seq(CaseWords)
      OBVIOUS
    <2>1. PICK n \in 0 .. 4 : words \in [1 .. n -> Words]
      BY DEF Lines
    <2>2. n \in Nat /\ words \in [1 .. n -> CaseWords]
      <3>1. Words \subseteq CaseWords
        BY DEF CaseWords
      <3>. QED  BY <2>1, <3>1
    <2>. QED  BY <2>2 DEF Seq
  <1>2. \A words \in Selections : words \in Seq(CaseWords)
    <2>1. /\ "-p" \in CaseWords /\ "--bin" \in CaseWords /\ "--" \in CaseWords /\ "app" \in CaseWords
          /\ "web" \in CaseWords /\ "tool" \in CaseWords /\ "none such" \in CaseWords
      BY DEF CaseWords, Words
    <2>. HIDE DEF CaseWords
    <2>2. \A a, b \in CaseWords : <<a, b>> \in Seq(CaseWords)
      OBVIOUS
    <2>3. \A a, b, c, d \in CaseWords : <<a, b, c, d>> \in Seq(CaseWords)
      OBVIOUS
    <2>4. \A a, b, c, d, e, f \in CaseWords : <<a, b, c, d, e, f>> \in Seq(CaseWords)
      OBVIOUS
    <2>5. <<>> \in Seq(CaseWords)
      OBVIOUS
    <2>6. <<"-p", "app">> \in Seq(CaseWords) /\ <<"-p", "tool">> \in Seq(CaseWords)
      BY <2>1, <2>2, Zenon
    <2>7. <<"-p", "none such">> \in Seq(CaseWords) /\ <<"--bin", "web">> \in Seq(CaseWords)
      BY <2>1, <2>2, Zenon
    <2>8. <<"--bin", "app", "-p", "tool">> \in Seq(CaseWords)
      BY <2>1, <2>3, Zenon
    <2>9. <<"-p", "app", "--bin", "app", "--", "--bin">> \in Seq(CaseWords)
      BY <2>1, <2>4, Zenon
    <2>. QED  BY <2>5, <2>6, <2>7, <2>8, <2>9, Zenon DEF Selections
  <1>3. CASE case \in [command : {"run", "doctor", "db migrate", "server"}, arguments : Lines,
                       project : {TwoMembers}, success : {TRUE}, outcome : {0}]
    <2>. DEFINE packages == [app |-> Package("app", AppRoot, {"app", "web"}, NoName, {}),
                             tool |-> Package("tool", ToolRoot, {"app"}, NoName, {})]
    <2>1. /\ case.command \in CaseCommands /\ case.arguments \in Seq(CaseWords)
          /\ case.success \in BOOLEAN /\ case.outcome \in {0, 3, 256}
      BY <1>1, <1>3 DEF CaseCommands
    <2>2. case.project = Workspace(packages, NoName)
      BY <1>3 DEF TwoMembers
    <2>3. TargetPackages(packages)
      <3>1. /\ LocalPackage(packages["app"], "app", {"app", "web"}, NoName)
            /\ LocalPackage(packages["tool"], "tool", {"app"}, NoName)
        BY CasePackages
      <3>2. DOMAIN packages = {"app", "tool"}
        OBVIOUS
      <3>. HIDE DEF packages
      <3>. QED  BY <3>1, <3>2 DEF TargetPackages, LocalPackage
    <2>. HIDE DEF packages
    <2>. QED  BY <2>1, <2>2, <2>3, WorkspaceOfCase
  <1>4. CASE case \in [command : {"run", "dev", "graph", "db rollback"}, arguments : Selections,
                       project : TargetProjects, success : BOOLEAN, outcome : {0, 3, 256}]
    <2>1. /\ case.command \in CaseCommands /\ case.arguments \in Seq(CaseWords)
          /\ case.success \in BOOLEAN /\ case.outcome \in {0, 3, 256}
      BY <1>2, <1>4 DEF CaseCommands
    <2>2. case.project \in TargetProjects
      BY <1>4
    <2>3. PICK ids \in {{"app"}, {"app", "tool"}}, binaries \in SUBSET {"app", "web"},
               default_run \in {NoName, "app"}, here \in {NoName, "app"} :
            case.project = TargetProject(ids, binaries, default_run, here)
      BY <2>2 DEF TargetProjects
    <2>. DEFINE packages ==
                  [id \in ids |-> IF id = "app" THEN Package("app", AppRoot, binaries, default_run, {})
                                  ELSE Package("tool", ToolRoot, {"app"}, NoName, {"app"})]
    <2>4. case.project = Workspace(packages, here)
      BY <2>3 DEF TargetProject
    <2>5. /\ DOMAIN packages = ids
          /\ \A id \in ids : \/ id = "app" /\ LocalPackage(packages[id], "app", binaries, default_run)
                             \/ id = "tool" /\ LocalPackage(packages[id], "tool", {"app"}, NoName)
      BY CasePackages
    <2>. HIDE DEF packages
    <2>6. TargetPackages(packages)
      <3>1. ASSUME NEW id \in ids
            PROVE  /\ packages[id].local = TRUE /\ packages[id].name = id
                   /\ packages[id].binaries \subseteq {"app", "web"}
                   /\ packages[id].default_run \in {NoName, "app"}
        <4>1. CASE id = "app" /\ LocalPackage(packages[id], "app", binaries, default_run)
          BY <4>1 DEF LocalPackage
        <4>2. CASE id = "tool" /\ LocalPackage(packages[id], "tool", {"app"}, NoName)
          BY <4>2 DEF LocalPackage
        <4>. QED  BY <2>5, <4>1, <4>2
      <3>. QED  BY <2>5, <3>1 DEF TargetPackages
    <2>. QED  BY <2>1, <2>4, <2>6, WorkspaceOfCase
  <1>. QED  BY <1>3, <1>4 DEF CommandCases

\* A command acts on the target that its line names, or on the only one there is,
\* and on nothing if the line is wrong or the target unclear.
LEMMA CommandReaches ==
  ASSUME topic = "command" => CommandCaseOK(input)
  PROVE  CommandReachesItsTarget
  <1>. SUFFICES ASSUME topic = "command", CommandCaseOK(input) PROVE CommandReachesItsTarget
    BY DEF CommandReachesItsTarget
  <1>. DEFINE command == input.command
              words   == input.arguments
              project == input.project
              parsed  == Parsed(command, words)
              chosen  == ChosenMembers(project, parsed.package)
              targets == TargetsOf(project, chosen, parsed.binary)
              clear   == Cardinality(chosen) = 1 /\ Cardinality(targets) = 1
              effect  == Outcome(command, words, project, Builds(input.success), input.outcome)
              starts  == clear /\ input.success /\ command \in {"run", "doctor", "graph"}
              ready   == \/ starts
                         \/ command = "dev" /\ clear
                         \/ command \in {"db migrate", "db rollback"} /\ Cardinality(chosen) = 1
              packages == PackageOptions(words)
              binaries == BinaryOptions(words)
              Done == /\ starts => \E t \in targets :
                           effect.process = [executable |-> Made(t[1], t[2]),
                                             arguments |-> SubSeq(words, Break(words) + 1, Len(words))]
                      /\ ~starts => effect.process = NoProcess
                      /\ effect.code = IF ready /\ (input.outcome = 0 \/ (command = "run" /\ input.outcome = 3))
                                       THEN input.outcome ELSE 1
  <1>. DEFINE given == MeantPackages(project, words)
              meant == MeantTargets(project, words)
  <1>. DEFINE certain == Cardinality(given) = 1 /\ Cardinality(meant) = 1
              started == certain /\ input.success /\ command \in {"run", "doctor", "graph"}
              able    == \/ started
                         \/ command = "dev" /\ certain
                         \/ command \in {"db migrate", "db rollback"} /\ Cardinality(given) = 1
              Acted == /\ started => \E t \in meant :
                            effect.process = [executable |-> Made(t[1], t[2]),
                                              arguments |-> SubSeq(words, Break(words) + 1, Len(words))]
                       /\ ~started => effect.process = NoProcess
                       /\ effect.code = IF able /\ (input.outcome = 0 \/ (command = "run" /\ input.outcome = 3))
                                        THEN input.outcome ELSE 1
  <1>. SUFFICES (~Syntax(command, words) => effect = Exit(2, NoProcess))
                  /\ (Syntax(command, words) => Acted)
    BY DEF CommandReachesItsTarget
  <1>1. command \in CaseCommands /\ words \in Seq(CaseWords)
    BY DEF CommandCaseOK
  <1>2. Syntax(command, words) <=> ParseAccepted(command, words)
    BY <1>1, SyntaxOfCases
  <1>3. ~Syntax(command, words) => effect = Exit(2, NoProcess)
    BY <1>2 DEF Outcome
  <1>4. ASSUME Syntax(command, words)
        PROVE  /\ parsed.package = IF packages # {} THEN ValueOf(words, packages) ELSE NoName
               /\ parsed.binary = IF binaries # {} THEN ValueOf(words, binaries) ELSE NoName
               /\ parsed.arguments = SubSeq(words, Break(words) + 1, Len(words))
    BY <1>1, <1>4, SyntaxOfCases
  <1>5. ASSUME Syntax(command, words) PROVE Done
    <2>1. ParseAccepted(command, words)
      BY <1>2, <1>5
    <2>2. /\ starts => \E t \in targets :
               effect.process = [executable |-> Made(t[1], t[2]), arguments |-> parsed.arguments]
          /\ ~starts => effect.process = NoProcess
          /\ effect.code = IF ready /\ (input.outcome = 0 \/ (command = "run" /\ input.outcome = 3))
                           THEN input.outcome ELSE 1
      BY <2>1, OutcomeOfCase
    <2>. QED  BY <1>4, <1>5, <2>2
  <1>6. ASSUME Syntax(command, words)
        PROVE  /\ packages # {} => ValueOf(words, packages) # NoName
               /\ binaries # {} => ValueOf(words, binaries) # NoName
    <2>1. (Break(words) - 1) % 2 = 0
      BY <1>6 DEF Syntax
    <2>2. /\ Len(words) \in Nat /\ Break(words) \in 1 .. Len(words) + 1
          /\ \A i \in 1 .. Break(words) - 1 : i \in 1 .. Len(words)
      BY <1>1, FirstBreak
    <2>3. \A i \in packages \cup binaries : i \in 1 .. Break(words) - 1 /\ i % 2 = 1
      BY DEF PackageOptions, BinaryOptions, OptionPlaces
    <2>4. \A i \in packages \cup binaries : i + 1 \in 1 .. Break(words) - 1
      BY <2>1, <2>2, <2>3
    <2>5. \A i \in packages \cup binaries : words[i + 1] # NoName
      BY <1>1, <2>2, <2>4, NoNameGiven
    <2>. QED  BY <2>5 DEF ValueOf
  <1>7. ASSUME Syntax(command, words)
        PROVE  chosen = given /\ targets = meant
    <2>1. /\ parsed.package # NoName <=> packages # {}
          /\ packages # {} => parsed.package = ValueOf(words, packages)
          /\ parsed.binary # NoName <=> binaries # {}
          /\ binaries # {} => parsed.binary = ValueOf(words, binaries)
      BY <1>4, <1>6, <1>7
    <2>. HIDE DEF parsed, packages, binaries
    <2>2. given = {id \in project.members :
                     IF packages # {} THEN project.packages[id].name = ValueOf(words, packages)
                     ELSE project.here = NoName \/ project.here = id}
      BY DEF MeantPackages, packages
    <2>3. meant = {t \in given \X {"app", "web"} :
                     /\ t[2] \in project.packages[t[1]].binaries
                     /\ IF binaries # {} THEN t[2] = ValueOf(words, binaries)
                        ELSE project.packages[t[1]].default_run \in {NoName, t[2]}}
      BY DEF MeantTargets, binaries
    <2>. HIDE DEF given, meant
    <2>4. chosen = given
      BY <2>1, <2>2 DEF ChosenMembers
    <2>. HIDE DEF chosen
    <2>5. targets = meant
      BY <2>1, <2>3, <2>4 DEF TargetsOf
    <2>. QED  BY <2>4, <2>5
  <1>. HIDE DEF effect, given, meant, chosen, targets
  <1>8. ASSUME Syntax(command, words) PROVE Acted
    BY <1>5, <1>7, <1>8
  <1>. QED  BY <1>3, <1>8

\* mads run, dev and the other commands act on the target their line names, or on
\* the only one there is, and on nothing if the line is wrong or the target unclear.
THEOREM CommandsReachTargets == Spec => []CommandReachesItsTarget
  <1>1. CaseOfTopic => CommandReachesItsTarget
    BY CommandCasesOK, CommandReaches DEF CaseOfTopic
  <1>. QED  BY <1>1, QuestionsAreCases, PTL

-----------------------------------------------------------------------------
(***************************************************************************)
(* The packages that one needs, for every project.                         *)
(***************************************************************************)
\* The accumulator of the packages that are reached, over positions up to `k`.
ReachesUpTo(project, id, k, f) ==
  f = [s \in SUBSET (1 .. k) |->
         IF s = {} THEN {id} ELSE WithDependencies(project, f[s \ {Max(s)}])]

\* There is one for every project.
LEMMA ReacherExists ==
  ASSUME NEW project, NEW id, NEW n \in Nat
  PROVE  \E f : ReachesUpTo(project, id, n, f)
  <1>. DEFINE Missing == {k \in Nat : ~ \E f : ReachesUpTo(project, id, k, f)}
  <1>. SUFFICES ASSUME Missing # {} PROVE FALSE
    OBVIOUS
  <1>1. PICK m \in Missing : \A k \in Missing : m <= k
    BY LeastExists
  <1>2. m # 0
    <2>. DEFINE f == [s \in SUBSET (1 .. 0) |-> {id}]
    <2>1. \A s \in SUBSET (1 .. 0) : s = {}
      OBVIOUS
    <2>2. f = [s \in SUBSET (1 .. 0) |->
                 IF s = {} THEN {id} ELSE WithDependencies(project, f[s \ {Max(s)}])]
      BY <2>1
    <2>3. ReachesUpTo(project, id, 0, f)
      BY <2>2 DEF ReachesUpTo
    <2>. QED  BY <2>3
  <1>3. PICK k \in Nat : m = k + 1
    <2>1. m - 1 \in Nat /\ m = (m - 1) + 1
      BY <1>2
    <2>. QED  BY <2>1
  <1>4. k \notin Missing
    BY <1>1, <1>3
  <1>5. PICK f : ReachesUpTo(project, id, k, f)
    BY <1>4
  <1>. DEFINE g == [s \in SUBSET (1 .. k + 1) |->
                      IF k + 1 \in s THEN WithDependencies(project, f[s \ {k + 1}]) ELSE f[s]]
              Step(s) == IF s = {} THEN {id} ELSE WithDependencies(project, g[s \ {Max(s)}])
  <1>6. \A s \in SUBSET (1 .. k) :
          /\ g[s] = f[s]
          /\ f[s] = IF s = {} THEN {id} ELSE WithDependencies(project, f[s \ {Max(s)}])
    <2>1. \A s \in SUBSET (1 .. k) :
            f[s] = IF s = {} THEN {id} ELSE WithDependencies(project, f[s \ {Max(s)}])
      BY <1>5 DEF ReachesUpTo
    <2>2. \A s \in SUBSET (1 .. k) : s \in SUBSET (1 .. k + 1) /\ k + 1 \notin s
      OBVIOUS
    <2>3. \A s \in SUBSET (1 .. k) : g[s] = f[s]
      BY <2>2
    <2>. QED  BY <2>1, <2>3
  <1>7. \A s \in SUBSET (1 .. k + 1) :
          g[s] = IF k + 1 \in s THEN WithDependencies(project, f[s \ {k + 1}]) ELSE f[s]
    OBVIOUS
  <1>8. g = [s \in SUBSET (1 .. k + 1) |-> g[s]]
    OBVIOUS
  <1>. HIDE DEF g
  <1>9. \A s \in SUBSET (1 .. k + 1) : g[s] = Step(s)
    <2>. SUFFICES ASSUME NEW s \in SUBSET (1 .. k + 1) PROVE g[s] = Step(s)
      OBVIOUS
    <2>1. CASE s = {}
      BY <2>1, <1>6
    <2>2. CASE s # {}
      <3>1. s \ {Max(s)} \in SUBSET (1 .. k)
        BY <2>2, LastPosition
      <3>2. CASE k + 1 \in s
        BY <2>2, <3>1, <3>2, <1>6, <1>7, LastPosition
      <3>3. CASE k + 1 \notin s
        BY <2>2, <3>1, <3>3, <1>6, LastPosition
      <3>. QED  BY <3>2, <3>3
    <2>. QED  BY <2>1, <2>2
  <1>10. g = [s \in SUBSET (1 .. k + 1) |-> Step(s)]
    BY <1>8, <1>9
  <1>11. ReachesUpTo(project, id, m, g)
    BY <1>3, <1>10 DEF ReachesUpTo
  <1>. QED  BY <1>11

\* What has been reached after each round.
Rounds(project, id, n, p) ==
  /\ p[0] = {id}
  /\ \A k \in 0 .. n - 1 : p[k + 1] = WithDependencies(project, p[k])

\* The dependencies are followed as often as there are packages.
LEMMA ReachedInRounds ==
  ASSUME NEW project, NEW id, IsFiniteSet(DOMAIN project.packages)
  PROVE  LET n == Cardinality(DOMAIN project.packages)
         IN  \E p : Rounds(project, id, n, p) /\ Reachable(project, id) = p[n]
  <1>. DEFINE n == Cardinality(DOMAIN project.packages)
              names == SetToSeq(DOMAIN project.packages)
              f == CHOOSE g : ReachesUpTo(project, id, n, g)
              p == [k \in 0 .. n |-> f[1 .. k]]
  <1>1. n \in Nat /\ DOMAIN names = 1 .. n
    <2>1. n \in Nat /\ ExistsBijection(1 .. n, DOMAIN project.packages)
      BY FS_CardinalityType
    <2>2. \E g \in [1 .. n -> DOMAIN project.packages] : IsInjective(g)
      <3>1. PICK g \in Bijection(1 .. n, DOMAIN project.packages) : TRUE
        BY <2>1 DEF ExistsBijection
      <3>2. g \in [1 .. n -> DOMAIN project.packages] /\ \A x, y \in 1 .. n : g[x] = g[y] => x = y
        BY <3>1 DEF Bijection, Injection, IsInjective
      <3>. QED  BY <3>2 DEF IsInjective
    <2>3. names \in [1 .. n -> DOMAIN project.packages]
      BY <2>2 DEF SetToSeq
    <2>. QED  BY <2>1, <2>3
  <1>2. Reachable(project, id) = f[1 .. n]
    BY <1>1 DEF Reachable, FoldLeft, MapThenFoldSet, ReachesUpTo
  <1>3. ReachesUpTo(project, id, n, f)
    BY <1>1, ReacherExists
  <1>. HIDE DEF f, n
  <1>4. \A s \in SUBSET (1 .. n) :
          f[s] = IF s = {} THEN {id} ELSE WithDependencies(project, f[s \ {Max(s)}])
    BY <1>3 DEF ReachesUpTo
  <1>5. p[0] = {id}
    <2>1. 1 .. 0 = {} /\ 0 \in 0 .. n
      BY <1>1
    <2>2. f[{}] = {id}
      BY <1>4
    <2>. QED  BY <2>1, <2>2
  <1>6. ASSUME NEW k \in 0 .. n - 1
        PROVE  p[k + 1] = WithDependencies(project, p[k])
    <2>1. 1 .. k + 1 \in SUBSET (1 .. n) /\ k \in Nat /\ k + 1 \in 0 .. n /\ k \in 0 .. n
      BY <1>1
    <2>2. p[k + 1] = f[1 .. k + 1] /\ p[k] = f[1 .. k]
      BY <2>1
    <2>3. Max(1 .. k + 1) = k + 1 /\ (1 .. k + 1) \ {k + 1} = 1 .. k /\ 1 .. k + 1 # {}
      BY <2>1, AllUpTo
    <2>. HIDE DEF p
    <2>4. f[1 .. k + 1] = WithDependencies(project, f[(1 .. k + 1) \ {Max(1 .. k + 1)}])
      BY <1>4, <2>1, <2>3
    <2>. QED  BY <2>2, <2>3, <2>4
  <1>7. p[n] = f[1 .. n]
    BY <1>1
  <1>. HIDE DEF p
  <1>8. Rounds(project, id, n, p)
    BY <1>5, <1>6 DEF Rounds
  <1>. QED  BY <1>2, <1>7, <1>8 DEF n

\* The packages that have been reached so far: some of the project's, all of
\* which are needed, and either as many as rounds or all that are.
Reaching(project, id, k, ids) ==
  /\ id \in ids /\ ids \subseteq DOMAIN project.packages
  /\ \A some : id \in some /\ Closed(project, some) => ids \subseteq some
  /\ Closed(project, ids) \/ Cardinality(ids) >= k + 1

\* One round more keeps to that.
LEMMA ReachNext ==
  ASSUME NEW project, NEW id, NEW k \in Nat, NEW ids, IsFiniteSet(DOMAIN project.packages),
         Closed(project, DOMAIN project.packages), Reaching(project, id, k, ids)
  PROVE  Reaching(project, id, k + 1, WithDependencies(project, ids))
  <1>. DEFINE more == WithDependencies(project, ids)
  <1>1. \A x : x \in more <=> x \in ids \/ \E known \in ids : x \in project.packages[known].dependencies
    BY DEF WithDependencies
  <1>2. id \in ids /\ ids \subseteq DOMAIN project.packages
    BY DEF Reaching
  <1>. HIDE DEF more
  <1>3. id \in more /\ more \subseteq DOMAIN project.packages /\ ids \subseteq more
    BY <1>1, <1>2 DEF Closed
  <1>4. ASSUME NEW some, id \in some, Closed(project, some) PROVE more \subseteq some
    <2>1. ids \subseteq some
      BY <1>4 DEF Reaching
    <2>. QED  BY <1>1, <1>4, <2>1 DEF Closed
  <1>5. Closed(project, more) \/ Cardinality(more) >= (k + 1) + 1
    <2>1. CASE Closed(project, ids)
      <3>1. more = ids
        BY <1>1, <2>1 DEF Closed
      <3>. QED  BY <2>1, <3>1
    <2>2. CASE ~Closed(project, ids)
      <3>1. Cardinality(ids) >= k + 1
        BY <2>2 DEF Reaching
      <3>2. more # ids
        BY <1>1, <2>2 DEF Closed
      <3>3. IsFiniteSet(more)
        BY <1>3, FS_Subset
      <3>4. Cardinality(ids) <= Cardinality(more) /\ Cardinality(ids) # Cardinality(more)
        BY <1>3, <3>2, <3>3, FS_Subset
      <3>5. IsFiniteSet(ids) /\ Cardinality(ids) \in Nat /\ Cardinality(more) \in Nat
        BY <1>3, <3>3, FS_Subset, FS_CardinalityType
      <3>. QED  BY <3>1, <3>4, <3>5
    <2>. QED  BY <2>1, <2>2
  <1>. QED  BY <1>3, <1>4, <1>5 DEF Reaching, more

\* The packages that mads watches for are the one selected and all that it needs,
\* however far: the least set that has it and whatever its members depend on
\* (project.rs, reachable_package_ids).
THEOREM ReachableIsNeeded ==
  ASSUME NEW project, IsFiniteSet(DOMAIN project.packages),
         Closed(project, DOMAIN project.packages), NEW id \in DOMAIN project.packages
  PROVE  LET ids == Reachable(project, id)
         IN  /\ id \in ids /\ ids \subseteq DOMAIN project.packages
             /\ Closed(project, ids)
             /\ \A some : id \in some /\ Closed(project, some) => ids \subseteq some
  <1>. DEFINE n == Cardinality(DOMAIN project.packages)
  <1>1. n \in Nat
    BY FS_CardinalityType
  <1>2. PICK p : Rounds(project, id, n, p) /\ Reachable(project, id) = p[n]
    BY ReachedInRounds
  <1>. HIDE DEF n
  <1>3. Reaching(project, id, 0, {id})
    <2>1. Cardinality({id}) = 1
      BY FS_Singleton
    <2>. QED  BY <2>1 DEF Reaching
  <1>. DEFINE Wrong == {k \in 0 .. n : ~Reaching(project, id, k, p[k])}
  <1>4. Wrong = {}
    <2>. SUFFICES ASSUME Wrong # {} PROVE FALSE
      OBVIOUS
    <2>1. PICK m \in Wrong : \A k \in Wrong : m <= k
      <3>1. Wrong \in SUBSET Nat
        BY <1>1
      <3>. QED  BY <3>1, LeastExists
    <2>2. m # 0
      BY <1>2, <1>3 DEF Rounds
    <2>3. PICK k \in 0 .. n - 1 : m = k + 1
      <3>1. m - 1 \in 0 .. n - 1 /\ m = (m - 1) + 1
        BY <1>1, <2>1, <2>2
      <3>. QED  BY <3>1
    <2>4. k \in 0 .. n /\ k \in Nat /\ k < n
      BY <1>1
    <2>5. Reaching(project, id, k, p[k])
      BY <2>1, <2>3, <2>4
    <2>6. p[m] = WithDependencies(project, p[k])
      BY <1>2, <2>3 DEF Rounds
    <2>7. Reaching(project, id, k + 1, WithDependencies(project, p[k]))
      BY <2>4, <2>5, ReachNext
    <2>. QED  BY <2>1, <2>3, <2>6, <2>7
  <1>5. Reaching(project, id, n, p[n])
    BY <1>1, <1>4
  <1>6. ~ (Cardinality(p[n]) >= n + 1)
    <2>1. p[n] \subseteq DOMAIN project.packages
      BY <1>5 DEF Reaching
    <2>2. Cardinality(p[n]) <= n /\ Cardinality(p[n]) \in Nat
      BY <2>1, FS_Subset, FS_CardinalityType DEF n
    <2>. QED  BY <1>1, <2>2
  <1>. QED  BY <1>2, <1>5, <1>6 DEF Reaching

-----------------------------------------------------------------------------
(***************************************************************************)
(* Watching, for every workspace and every file of one: the owner of a     *)
(* file, and what a change to it leads to.                                 *)
(***************************************************************************)
\* One sequence is above another if it is shorter and agrees with it.
LEMMA PrefixElements ==
  ASSUME NEW S, NEW s \in Seq(S), NEW t \in Seq(S)
  PROVE  IsPrefix(s, t) <=> Len(s) <= Len(t) /\ \A i \in 1 .. Len(s) : s[i] = t[i]
  <1>1. CASE Len(s) <= Len(t)
    <2>1. SubSeq(s, 1, Len(s)) \in Seq(S) /\ SubSeq(t, 1, Len(s)) \in Seq(S)
      BY <1>1
    <2>2. /\ Len(SubSeq(s, 1, Len(s))) = Len(s) /\ Len(SubSeq(t, 1, Len(s))) = Len(s)
          /\ \A i \in 1 .. Len(s) : SubSeq(s, 1, Len(s))[i] = s[i] /\ SubSeq(t, 1, Len(s))[i] = t[i]
      BY <1>1
    <2>3. SubSeq(s, 1, Len(s)) = SubSeq(t, 1, Len(s))
            <=> \A i \in 1 .. Len(s) : s[i] = t[i]
      BY <2>1, <2>2
    <2>. QED  BY <1>1, <2>3 DEF IsPrefix
  <1>2. CASE ~ (Len(s) <= Len(t))
    BY <1>2 DEF IsPrefix
  <1>. QED  BY <1>1, <1>2

\* Two that are above each other are the same.
LEMMA PrefixesAgree ==
  ASSUME NEW S, NEW s \in Seq(S), NEW t \in Seq(S), IsPrefix(s, t), IsPrefix(t, s)
  PROVE  s = t
  BY PrefixElements

\* The shorter of two above a third is above the longer.
LEMMA PrefixesNest ==
  ASSUME NEW S, NEW r \in Seq(S), NEW s \in Seq(S), NEW t \in Seq(S),
         IsPrefix(s, t)
  PROVE  /\ IsPrefix(r, s) => IsPrefix(r, t)
         /\ IsPrefix(r, t) /\ Len(r) <= Len(s) => IsPrefix(r, s)
  <1>1. Len(s) \in Nat /\ Len(r) \in Nat /\ Len(t) \in Nat
    OBVIOUS
  <1>2. Len(s) <= Len(t) /\ \A i \in 1 .. Len(s) : s[i] = t[i]
    BY PrefixElements
  <1>3. IsPrefix(r, s) <=> Len(r) <= Len(s) /\ \A i \in 1 .. Len(r) : r[i] = s[i]
    BY PrefixElements
  <1>4. IsPrefix(r, t) <=> Len(r) <= Len(t) /\ \A i \in 1 .. Len(r) : r[i] = t[i]
    BY PrefixElements
  <1>. QED  BY <1>1, <1>2, <1>3, <1>4

\* Projects whose local packages have roots of their own, apart from what else a
\* root is made of; every dependency is one of the packages.
RootNames == {"ws", "app", "tool", "lib", "cargo", "dep"}
FolderNames == RootNames \cup {"src", "migrations", "1", "target"}
LastNames == FileNames \cup {"README.md"}

WatchProjectOK(project) ==
  /\ project.workspace_root = <<"ws">>
  /\ IsFiniteSet(DOMAIN project.packages) /\ Closed(project, DOMAIN project.packages)
  /\ \A id \in DOMAIN project.packages : project.packages[id].root \in Seq(RootNames)
  /\ \A id, other \in DOMAIN project.packages :
       project.packages[id].root = project.packages[other].root => id = other

\* Files in the folders of the cases.
PathOK(path) ==
  /\ path \in Seq(FolderNames \cup LastNames) /\ Len(path) > 0
  /\ Last(path) \in LastNames
  /\ Front(path) \in Seq(FolderNames)

\* What is in a path that is a folder and a file.
LEMMA PathParts ==
  ASSUME NEW path, PathOK(path)
  PROVE  /\ Len(path) \in Nat /\ Len(path) >= 1
         /\ path[Len(path)] \in LastNames
         /\ \A i \in 1 .. Len(path) - 1 : path[i] \in FolderNames /\ Front(path)[i] = path[i]
         /\ Len(Front(path)) = Len(path) - 1
         /\ path = Append(Front(path), Last(path))
  <1>1. Len(path) \in Nat /\ Len(path) >= 1
    BY DEF PathOK
  <1>2. Len(Front(path)) = Len(path) - 1
    <2>1. PICK m \in Nat : Len(path) = m + 1
      <3>1. Len(path) - 1 \in Nat /\ Len(path) = (Len(path) - 1) + 1
        BY <1>1
      <3>. QED  BY <3>1
    <2>2. Len(SubSeq(path, 1, m)) = m
      BY <2>1 DEF PathOK
    <2>. QED  BY <2>1, <2>2 DEF Front
  <1>3. \A i \in 1 .. Len(path) - 1 : Front(path)[i] = path[i]
    BY <1>1 DEF PathOK, Front
  <1>4. \A i \in 1 .. Len(path) - 1 : Front(path)[i] \in FolderNames
    BY <1>2 DEF PathOK
  <1>5. path[Len(path)] = Last(path)
    BY DEF Last
  <1>6. Append(Front(path), Last(path)) \in Seq(FolderNames \cup LastNames)
    BY DEF PathOK
  <1>7. Len(Append(Front(path), Last(path))) = Len(path)
    BY <1>1, <1>2, <1>6 DEF PathOK
  <1>8. \A i \in 1 .. Len(path) : Append(Front(path), Last(path))[i] = path[i]
    BY <1>1, <1>2, <1>3, <1>5 DEF PathOK
  <1>9. path = Append(Front(path), Last(path))
    BY <1>1, <1>6, <1>7, <1>8 DEF PathOK
  <1>. QED  BY <1>1, <1>2, <1>3, <1>4, <1>5, <1>9 DEF PathOK

\* A file in a folder is the one that ends with it.
LEMMA FileInFolder ==
  ASSUME NEW path, PathOK(path), NEW folder \in Seq(FolderNames), NEW file
  PROVE  path = Append(folder, file) <=> Front(path) = folder /\ Last(path) = file
  <1>1. /\ Len(path) \in Nat /\ Len(path) >= 1 /\ path = Append(Front(path), Last(path))
        /\ Len(Front(path)) = Len(path) - 1 /\ Front(path) \in Seq(FolderNames)
        /\ \A i \in 1 .. Len(path) - 1 : Front(path)[i] = path[i]
        /\ Last(path) = path[Len(path)]
    BY PathParts DEF PathOK, Last
  <1>2. ASSUME path = Append(folder, file)
        PROVE  Front(path) = folder /\ Last(path) = file
    <2>1. Len(path) = Len(folder) + 1 /\ path[Len(folder) + 1] = file
          /\ \A i \in 1 .. Len(folder) : path[i] = folder[i]
      BY <1>2
    <2>2. Last(path) = file
      BY <1>1, <2>1
    <2>3. Len(Front(path)) = Len(folder) /\ \A i \in 1 .. Len(folder) : Front(path)[i] = folder[i]
      BY <1>1, <2>1
    <2>4. Front(path) = folder
      BY <1>1, <2>3
    <2>. QED  BY <2>2, <2>4
  <1>. QED  BY <1>1, <1>2

\* The root of a package is a folder.
LEMMA RootsAreFolders ==
  ASSUME NEW project, WatchProjectOK(project)
  PROVE  \A id \in DOMAIN project.packages : project.packages[id].root \in Seq(FolderNames)
  <1>1. RootNames \subseteq FolderNames
    BY DEF FolderNames
  <1>2. Seq(RootNames) \subseteq Seq(FolderNames)
    BY <1>1
  <1>. QED  BY <1>2 DEF WatchProjectOK

\* What mads watches and what it leaves out, in terms of what the package needs.
LEMMA WatchedRoots ==
  ASSUME NEW project, WatchProjectOK(project), NEW id \in DOMAIN project.packages,
         project.packages[id].local, NEW watch, watch = WatchSet(project, id),
         NEW needed, needed = NeededBy(project, id)
  PROVE  /\ id \in needed /\ needed \subseteq DOMAIN project.packages
         /\ watch.local = LocalRoots(project, needed)
         /\ watch.recursive = watch.local
         /\ watch.excluded = LocalRoots(project, DOMAIN project.packages) \ watch.local
         /\ \A known \in DOMAIN project.packages :
              project.packages[known].local =>
                /\ project.packages[known].root \in watch.local <=> known \in needed
                /\ project.packages[known].root \in watch.excluded <=> known \notin needed
  <1>. DEFINE ids == Reachable(project, id)
  <1>1. /\ id \in ids /\ ids \subseteq DOMAIN project.packages
        /\ Closed(project, ids)
        /\ \A some : id \in some /\ Closed(project, some) => ids \subseteq some
    BY ReachableIsNeeded DEF WatchProjectOK
  <1>. HIDE DEF ids
  <1>2. ids = needed
    <2>1. needed \subseteq ids
      BY <1>1 DEF NeededBy
    <2>2. ids \subseteq needed
      BY <1>1 DEF NeededBy
    <2>. QED  BY <2>1, <2>2
  <1>3. WatchedPackages(project, id) = LocalRoots(project, needed)
    <2>1. project.packages[id].root \in LocalRoots(project, ids)
      BY <1>1 DEF LocalRoots
    <2>. QED  BY <1>2, <2>1 DEF WatchedPackages, ids
  <1>4. /\ watch.local = LocalRoots(project, needed) /\ watch.recursive = watch.local
        /\ watch.excluded = LocalRoots(project, DOMAIN project.packages) \ watch.local
    BY <1>3 DEF WatchSet
  <1>5. ASSUME NEW known \in DOMAIN project.packages, project.packages[known].local
        PROVE  /\ project.packages[known].root \in watch.local <=> known \in needed
               /\ project.packages[known].root \in watch.excluded <=> known \notin needed
    <2>1. project.packages[known].root \in LocalRoots(project, needed) <=> known \in needed
      BY <1>1, <1>2, <1>5 DEF LocalRoots, WatchProjectOK
    <2>2. project.packages[known].root \in LocalRoots(project, DOMAIN project.packages)
      BY <1>5 DEF LocalRoots
    <2>. QED  BY <1>4, <2>1, <2>2
  <1>. QED  BY <1>1, <1>2, <1>4, <1>5

\* A file belongs to at most one package, and if there is one above it, to one.
LEMMA OneOwner ==
  ASSUME NEW project, WatchProjectOK(project), NEW path, PathOK(path)
  PROVE  /\ \A id, other \in DOMAIN project.packages :
              Belongs(project, id, path) /\ Belongs(project, other, path) => id = other
         /\ \A id \in DOMAIN project.packages :
              /\ Holds(project, id, path)
              /\ \A other \in DOMAIN project.packages : Holds(project, other, path) =>
                   Len(project.packages[other].root) <= Len(project.packages[id].root)
              => Belongs(project, id, path)
         /\ \A id, other \in DOMAIN project.packages :
              Belongs(project, id, path) /\ Holds(project, other, path) =>
                Len(project.packages[other].root) <= Len(project.packages[id].root)
  <1>. DEFINE Names == FolderNames \cup LastNames
  <1>1. path \in Seq(Names) /\ \A id \in DOMAIN project.packages :
          project.packages[id].root \in Seq(Names)
    <2>1. RootNames \subseteq Names
      BY DEF FolderNames
    <2>2. Seq(RootNames) \subseteq Seq(Names)
      BY <2>1
    <2>. QED  BY <2>2 DEF PathOK, WatchProjectOK
  <1>. HIDE DEF Names
  <1>2. ASSUME NEW id \in DOMAIN project.packages, NEW other \in DOMAIN project.packages,
               Belongs(project, id, path), Belongs(project, other, path)
        PROVE  id = other
    <2>1. /\ IsPrefix(project.packages[id].root, project.packages[other].root)
          /\ IsPrefix(project.packages[other].root, project.packages[id].root)
      BY <1>2 DEF Belongs
    <2>2. project.packages[id].root = project.packages[other].root
      BY <1>1, <2>1, PrefixesAgree
    <2>. QED  BY <2>2 DEF WatchProjectOK
  <1>3. ASSUME NEW id \in DOMAIN project.packages, Holds(project, id, path),
               \A other \in DOMAIN project.packages : Holds(project, other, path) =>
                 Len(project.packages[other].root) <= Len(project.packages[id].root)
        PROVE  Belongs(project, id, path)
    <2>1. ASSUME NEW other \in DOMAIN project.packages, Holds(project, other, path)
          PROVE  IsPrefix(project.packages[other].root, project.packages[id].root)
      <3>1. /\ IsPrefix(project.packages[other].root, path)
            /\ IsPrefix(project.packages[id].root, path)
            /\ Len(project.packages[other].root) <= Len(project.packages[id].root)
        BY <1>3, <2>1 DEF Holds
      <3>. QED  BY <1>1, <3>1, PrefixesNest
    <2>. QED  BY <1>3, <2>1 DEF Belongs
  <1>4. ASSUME NEW id \in DOMAIN project.packages, NEW other \in DOMAIN project.packages,
               Belongs(project, id, path), Holds(project, other, path)
        PROVE  Len(project.packages[other].root) <= Len(project.packages[id].root)
    BY <1>4 DEF Belongs, IsPrefix
  <1>. QED  BY <1>2, <1>3, <1>4

\* The owner that mads finds is the package the file belongs to.
LEMMA OwnersDecide ==
  ASSUME NEW project, WatchProjectOK(project), NEW id \in DOMAIN project.packages,
         project.packages[id].local, NEW watch, watch = WatchSet(project, id),
         NEW needed, needed = NeededBy(project, id), NEW path, PathOK(path)
  PROVE  /\ OwnerIsReachable(watch, path) <=> \E known \in needed : Belongs(project, known, path)
         /\ OwnerIsExcluded(watch, path)
              <=> \E known \in DOMAIN project.packages \ needed : Belongs(project, known, path)
         /\ \A known \in DOMAIN project.packages :
              Belongs(project, known, path) => Owner(watch, path) = project.packages[known].root
  <1>. DEFINE ids == DOMAIN project.packages
              root(known) == project.packages[known].root
  <1>0. \A known \in ids : Len(root(known)) \in Nat
    BY DEF WatchProjectOK
  <1>1. /\ id \in needed /\ needed \subseteq ids
        /\ watch.local = LocalRoots(project, needed)
        /\ watch.excluded = LocalRoots(project, ids) \ watch.local
        /\ \A known \in ids : project.packages[known].local =>
                /\ root(known) \in watch.local <=> known \in needed
                /\ root(known) \in watch.excluded <=> known \notin needed
    BY WatchedRoots
  <1>2. Owners(watch, path) = {root(known) : known \in {some \in ids : Holds(project, some, path)}}
    <2>1. watch.local \cup watch.excluded = LocalRoots(project, ids)
      BY <1>1 DEF LocalRoots
    <2>. QED  BY <2>1 DEF Owners, LocalRoots, Holds
  <1>. DEFINE Longest(known) ==
                /\ Holds(project, known, path)
                /\ \A other \in ids : Holds(project, other, path) =>
                     Len(root(other)) <= Len(root(known))
  <1>3. \A known \in ids : Longest(known) <=> Belongs(project, known, path)
    BY OneOwner DEF Belongs
  <1>4. ASSUME Owners(watch, path) # {}
        PROVE  \E known \in ids : Longest(known)
    <2>. DEFINE Spare == {Len(path) - Len(root(known)) :
                            known \in {some \in ids : Holds(project, some, path)}}
    <2>1. \A known \in ids : Holds(project, known, path) =>
            Len(path) - Len(root(known)) \in Nat
      BY <1>0, PathParts DEF Holds, IsPrefix
    <2>2. Spare \in SUBSET Nat /\ Spare # {}
      BY <1>2, <1>4, <2>1
    <2>3. PICK least \in Spare : \A spare \in Spare : least <= spare
      BY <2>2, LeastExists
    <2>4. PICK known \in ids : Holds(project, known, path) /\ least = Len(path) - Len(root(known))
      BY <2>3
    <2>5. ASSUME NEW other \in ids, Holds(project, other, path)
          PROVE  Len(root(other)) <= Len(root(known))
      <3>1. Len(path) - Len(root(other)) \in Spare
        BY <2>5
      <3>2. Len(path) - Len(root(known)) <= Len(path) - Len(root(other))
        BY <2>3, <2>4, <3>1
      <3>. QED  BY <1>0, <3>2, PathParts
    <2>. QED  BY <2>4, <2>5
  <1>5. ASSUME NEW known \in ids, Longest(known)
        PROVE  Owners(watch, path) # {} /\ Owner(watch, path) = root(known)
    <2>1. root(known) \in Owners(watch, path)
      BY <1>2, <1>5
    <2>2. \A other \in Owners(watch, path) : Len(other) <= Len(root(known))
      BY <1>2, <1>5
    <2>3. /\ Owner(watch, path) \in Owners(watch, path)
          /\ \A other \in Owners(watch, path) : Len(other) <= Len(Owner(watch, path))
      BY <2>1, <2>2 DEF Owner
    <2>4. PICK owner \in ids : Holds(project, owner, path) /\ Owner(watch, path) = root(owner)
      BY <1>2, <2>3
    <2>5. Longest(owner)
      BY <1>2, <2>3, <2>4
    <2>6. owner = known
      BY <1>3, <1>5, <2>5, OneOwner
    <2>. QED  BY <2>1, <2>4, <2>6
  <1>. HIDE DEF Longest
  <1>6. ASSUME NEW known \in ids, Belongs(project, known, path)
        PROVE  /\ Owners(watch, path) # {} /\ Owner(watch, path) = root(known)
               /\ Owner(watch, path) \in watch.local <=> known \in needed
               /\ Owner(watch, path) \in watch.excluded <=> known \notin needed
    <2>1. project.packages[known].local
      BY <1>6 DEF Belongs, Holds
    <2>. QED  BY <1>1, <1>3, <1>5, <1>6, <2>1
  <1>7. Owners(watch, path) # {} => \E known \in ids : Belongs(project, known, path)
    BY <1>3, <1>4
  <1>8. \A known, other \in ids :
          Belongs(project, known, path) /\ Belongs(project, other, path) => known = other
    BY OneOwner
  <1>9. OwnerIsReachable(watch, path) <=> \E known \in needed : Belongs(project, known, path)
    BY <1>1, <1>6, <1>7, <1>8 DEF OwnerIsReachable
  <1>10. OwnerIsExcluded(watch, path) <=> \E known \in ids \ needed : Belongs(project, known, path)
    BY <1>1, <1>6, <1>7, <1>8 DEF OwnerIsExcluded
  <1>. QED  BY <1>6, <1>9, <1>10

\* No root of a package is a file: a package is above what is in its folder.
LEMMA RootsAbove ==
  ASSUME NEW project, WatchProjectOK(project), NEW path, PathOK(path),
         NEW id \in DOMAIN project.packages, Holds(project, id, path)
  PROVE  LET root == project.packages[id].root
         IN  /\ Len(root) \in Nat /\ Len(root) <= Len(path) - 1
             /\ \A i \in 1 .. Len(root) : root[i] = path[i] /\ root[i] \in RootNames
             /\ IsPrefix(root, Front(path))
  <1>. DEFINE root == project.packages[id].root
              Names == FolderNames \cup LastNames
  <1>1. root \in Seq(RootNames) /\ Len(root) \in Nat
    BY DEF WatchProjectOK
  <1>2. root \in Seq(Names) /\ path \in Seq(Names) /\ Front(path) \in Seq(Names)
    <2>1. RootNames \subseteq Names /\ FolderNames \subseteq Names
      BY DEF FolderNames
    <2>2. Seq(RootNames) \subseteq Seq(Names) /\ Seq(FolderNames) \subseteq Seq(Names)
      BY <2>1
    <2>. QED  BY <1>1, <2>2 DEF PathOK
  <1>3. Len(root) <= Len(path) /\ \A i \in 1 .. Len(root) : root[i] = path[i]
    <2>1. IsPrefix(root, path)
      BY DEF Holds
    <2>. HIDE DEF Names, root
    <2>. QED  BY <1>2, <2>1, PrefixElements
  <1>4. \A i \in 1 .. Len(root) : root[i] \in RootNames
    BY <1>1
  <1>5. Len(root) # Len(path)
    <2>. SUFFICES ASSUME Len(root) = Len(path) PROVE FALSE
      OBVIOUS
    <2>1. Len(path) >= 1 /\ path[Len(path)] \in LastNames
      BY PathParts
    <2>2. path[Len(path)] \in RootNames
      BY <1>1, <1>3, <1>4, <2>1
    <2>. QED  BY <2>1, <2>2 DEF RootNames, LastNames, FileNames
  <1>6. Len(root) <= Len(path) - 1
    BY <1>1, <1>3, <1>5, PathParts
  <1>7. IsPrefix(root, Front(path))
    <2>1. Len(Front(path)) = Len(path) - 1 /\ \A i \in 1 .. Len(path) - 1 : Front(path)[i] = path[i]
      BY PathParts
    <2>2. Len(root) <= Len(Front(path)) /\ \A i \in 1 .. Len(root) : root[i] = Front(path)[i]
      BY <1>1, <1>3, <1>6, <2>1, PathParts
    <2>. HIDE DEF Names, root
    <2>. QED  BY <1>2, <2>2, PrefixElements
  <1>. QED  BY <1>1, <1>3, <1>4, <1>6, <1>7

\* What is in the folder of a package belongs to it.
LEMMA OwnFile ==
  ASSUME NEW project, WatchProjectOK(project), NEW path, PathOK(path),
         NEW id \in DOMAIN project.packages, project.packages[id].local,
         Front(path) = project.packages[id].root
  PROVE  Belongs(project, id, path)
  <1>. DEFINE root == project.packages[id].root
              Names == FolderNames \cup LastNames
  <1>1. root \in Seq(Names) /\ path \in Seq(Names)
    <2>1. FolderNames \subseteq Names
      OBVIOUS
    <2>2. Seq(FolderNames) \subseteq Seq(Names)
      BY <2>1
    <2>. QED  BY <2>2 DEF PathOK
  <1>2. Len(root) = Len(path) - 1 /\ \A i \in 1 .. Len(root) : root[i] = path[i]
    BY PathParts
  <1>3. Holds(project, id, path)
    <2>1. Len(root) <= Len(path)
      BY <1>2, PathParts
    <2>2. IsPrefix(root, path)
      <3>. HIDE DEF root, Names
      <3>. QED  BY <1>1, <1>2, <2>1, PrefixElements
    <2>. QED  BY <2>2 DEF Holds
  <1>4. \A other \in DOMAIN project.packages : Holds(project, other, path) =>
          Len(project.packages[other].root) <= Len(root)
    BY <1>2, RootsAbove
  <1>. QED  BY <1>3, <1>4, OneOwner

\* What mads ignores is what a build or an editor makes.
LEMMA IgnoredPaths ==
  ASSUME NEW path, PathOK(path)
  PROVE  Ignored(path) <=> ~Relevant(path)
  <1>1. path \in Seq(FolderNames \cup LastNames) /\ Last(path) \in LastNames
    BY DEF PathOK
  <1>2. ToSet(path) = {path[i] : i \in DOMAIN path}
    BY DEF ToSet
  <1>3. ".git" \notin ToSet(path)
    <2>1. \A i \in DOMAIN path : path[i] \in FolderNames \cup LastNames
      BY <1>1
    <2>2. ".git" \notin FolderNames \cup LastNames
      BY DEF FolderNames, RootNames, LastNames, FileNames
    <2>. QED  BY <1>2, <2>1, <2>2
  <1>4. "target" \in ToSet(path) <=> \E i \in DOMAIN path : path[i] = "target"
    BY <1>2
  <1>5. Last(path) \in EditorFiles <=> Last(path) = "main.rs~"
    BY <1>1 DEF LastNames, FileNames, EditorFiles
  <1>. QED  BY <1>3, <1>4, <1>5 DEF Ignored, Relevant

\* A file under the migrations of the package that is built.
LEMMA MigrationPaths ==
  ASSUME NEW project, WatchProjectOK(project), NEW path, PathOK(path),
         NEW id \in DOMAIN project.packages, project.packages[id].local
  PROVE  IsPrefix(Append(project.packages[id].root, "migrations"), path)
           <=> /\ Belongs(project, id, path)
               /\ path[Len(project.packages[id].root) + 1] = "migrations"
  <1>. DEFINE root == project.packages[id].root
              folder == Append(root, "migrations")
              Names == FolderNames \cup LastNames
  <1>1. root \in Seq(RootNames) /\ Len(root) \in Nat
    BY DEF WatchProjectOK
  <1>2. /\ root \in Seq(Names) /\ path \in Seq(Names) /\ folder \in Seq(Names)
        /\ Len(folder) = Len(root) + 1 /\ folder[Len(root) + 1] = "migrations"
        /\ \A i \in 1 .. Len(root) : folder[i] = root[i]
    <2>1. RootNames \subseteq Names /\ "migrations" \in Names
      BY DEF FolderNames
    <2>2. Seq(RootNames) \subseteq Seq(Names)
      BY <2>1
    <2>3. root \in Seq(Names)
      BY <1>1, <2>2
    <2>4. path \in Seq(Names)
      BY DEF PathOK
    <2>. HIDE DEF root, Names
    <2>. QED  BY <1>1, <2>1, <2>3, <2>4
  <1>. DEFINE Under == IsPrefix(folder, path)
  <1>3. Under <=> Len(root) + 1 <= Len(path) /\ IsPrefix(root, path) /\ path[Len(root) + 1] = "migrations"
    <2>. HIDE DEF root, folder, Names
    <2>1. IsPrefix(root, path) <=> Len(root) <= Len(path) /\ \A i \in 1 .. Len(root) : root[i] = path[i]
      BY <1>2, PrefixElements
    <2>2. Under <=> Len(root) + 1 <= Len(path) /\ \A i \in 1 .. Len(root) + 1 : folder[i] = path[i]
      BY <1>2, PrefixElements
    <2>3. 1 .. Len(root) + 1 = (1 .. Len(root)) \cup {Len(root) + 1}
      BY <1>1
    <2>4. (\A i \in 1 .. Len(root) + 1 : folder[i] = path[i])
            <=> /\ \A i \in 1 .. Len(root) : root[i] = path[i]
                /\ path[Len(root) + 1] = "migrations"
      BY <1>2, <2>3
    <2>5. Len(path) \in Nat /\ (Len(root) + 1 <= Len(path) => Len(root) <= Len(path))
      BY <1>1, PathParts
    <2>. QED  BY <2>1, <2>2, <2>4, <2>5
  <1>. HIDE DEF folder
  <1>4. ASSUME Under PROVE Belongs(project, id, path)
    <2>1. Holds(project, id, path)
      BY <1>3, <1>4 DEF Holds
    <2>2. ASSUME NEW other \in DOMAIN project.packages, Holds(project, other, path)
          PROVE  Len(project.packages[other].root) <= Len(root)
      <3>. DEFINE its == project.packages[other].root
      <3>1. /\ Len(its) \in Nat
            /\ \A i \in 1 .. Len(its) : its[i] = path[i] /\ its[i] \in RootNames
        BY <2>2, RootsAbove
      <3>2. Len(root) + 1 \notin 1 .. Len(its)
        BY <1>3, <1>4, <3>1 DEF RootNames
      <3>. QED  BY <1>1, <3>1, <3>2
    <2>. QED  BY <2>1, <2>2, OneOwner
  <1>5. ASSUME Belongs(project, id, path), path[Len(root) + 1] = "migrations" PROVE Under
    <2>1. Holds(project, id, path)
      BY <1>5 DEF Belongs
    <2>2. Len(root) <= Len(path) - 1
      BY <2>1, RootsAbove
    <2>. QED  BY <1>1, <1>3, <1>5, <2>1, <2>2, PathParts DEF Holds
  <1>. QED  BY <1>3, <1>4, <1>5 DEF folder

\* What is rebuilt for is what the build reads.
LEMMA RebuildsForBuild ==
  ASSUME NEW project, WatchProjectOK(project), NEW path, PathOK(path),
         NEW id \in DOMAIN project.packages, project.packages[id].local,
         NEW watch, watch = WatchSet(project, id)
  PROVE  RebuildPath(watch, path) /\ ~OwnerIsExcluded(watch, path) <=> BuildReads(project, id, path)
  <1>. DEFINE packages == project.packages
              needed == NeededBy(project, id)
              root == packages[id].root
              Needed == \E known \in needed : Belongs(project, known, path)
              Foreign == \E known \in DOMAIN packages \ needed : Belongs(project, known, path)
              Manifest == \E known \in needed :
                            path = Append(packages[known].root, "Cargo.toml") /\ packages[known].local
              Cargo == Front(path) = <<"ws">> /\ Last(path) \in {"Cargo.toml", "Cargo.lock"}
              Embedded == Belongs(project, id, path) /\ path[Len(root) + 1] = "migrations"
  <1>1. id \in needed /\ needed \subseteq DOMAIN packages
    BY WatchedRoots
  <1>2. /\ OwnerIsReachable(watch, path) <=> Needed
        /\ OwnerIsExcluded(watch, path) <=> Foreign
        /\ \A known \in DOMAIN packages :
             Belongs(project, known, path) => Owner(watch, path) = packages[known].root
    BY OwnersDecide
  <1>3. Needed => ~Foreign
    BY <1>1, OneOwner
  <1>4. watch.workspace = <<"ws">> /\ watch.package = root
    BY DEF WatchSet, WatchProjectOK
  <1>5. /\ Last(path) \in LastNames /\ Front(path) \in Seq(FolderNames)
        /\ path = Append(Front(path), Last(path)) /\ path[Len(path)] = Last(path)
        /\ path \in Seq(FolderNames \cup LastNames) /\ Len(path) \in Nat /\ Len(path) >= 1
        /\ Len(Front(path)) = Len(path) - 1
        /\ \A i \in 1 .. Len(path) - 1 : Front(path)[i] = path[i]
    BY PathParts DEF PathOK, Last
  <1>6. \A folder \in Seq(FolderNames), file \in LastNames :
          path = Append(folder, file) <=> Front(path) = folder /\ Last(path) = file
    BY FileInFolder
  <1>7. \A known \in DOMAIN packages : packages[known].root \in Seq(FolderNames)
    BY RootsAreFolders
  <1>8. <<"ws">> \in Seq(FolderNames)
    <2>1. "ws" \in FolderNames
      BY DEF FolderNames, RootNames
    <2>. QED  BY <2>1
  <1>9. "Cargo.toml" \in LastNames /\ "Cargo.lock" \in LastNames
    BY DEF LastNames, FileNames
  <1>10. path \in {Append(watch.workspace, "Cargo.toml"), Append(watch.workspace, "Cargo.lock")} <=> Cargo
    BY <1>4, <1>6, <1>8, <1>9
  <1>11. OwnerIsReachable(watch, path) /\ Last(path) \in RustSources <=> Needed /\ Last(path) = "main.rs"
    BY <1>2, <1>5 DEF RustSources, LastNames, FileNames
  <1>12. Manifest => Needed
    <2>. SUFFICES ASSUME NEW known \in needed, packages[known].local,
                         path = Append(packages[known].root, "Cargo.toml")
                  PROVE  Needed
      OBVIOUS
    <2>1. Front(path) = packages[known].root
      BY <1>1, <1>6, <1>7, <1>9
    <2>2. Belongs(project, known, path)
      BY <1>1, <2>1, OwnFile
    <2>. QED  BY <2>2
  <1>13. /\ OwnerIsReachable(watch, path)
         /\ Last(path) = "Cargo.toml" /\ Front(path) = Owner(watch, path)
         <=> Manifest
    <2>1. ASSUME Needed, Last(path) = "Cargo.toml", Front(path) = Owner(watch, path)
          PROVE  Manifest
      <3>1. PICK known \in needed : Belongs(project, known, path)
        BY <2>1
      <3>2. packages[known].local
        BY <3>1 DEF Belongs, Holds
      <3>3. path = Append(packages[known].root, "Cargo.toml")
        BY <1>1, <1>2, <1>5, <2>1, <3>1
      <3>. QED  BY <3>2, <3>3
    <2>2. ASSUME Manifest
          PROVE  Needed /\ Last(path) = "Cargo.toml" /\ Front(path) = Owner(watch, path)
      <3>1. PICK known \in needed :
              path = Append(packages[known].root, "Cargo.toml") /\ packages[known].local
        BY <2>2
      <3>2. Front(path) = packages[known].root /\ Last(path) = "Cargo.toml"
        BY <1>1, <1>6, <1>7, <1>9, <3>1
      <3>3. Belongs(project, known, path)
        BY <1>1, <3>1, <3>2, OwnFile
      <3>. QED  BY <1>1, <1>2, <3>2, <3>3
    <2>. HIDE DEF Needed, Manifest
    <2>. QED  BY <1>2, <2>1, <2>2
  <1>14. IsPrefix(Append(watch.package, "migrations"), path) <=> Embedded
    BY <1>4, MigrationPaths
  <1>15. Embedded => Needed
    BY <1>1
  <1>16. path # watch.package \o <<"src", "schema.rs">>
    <2>1. root \in Seq(FolderNames)
      BY <1>7
    <2>2. ASSUME path = root \o <<"src", "schema.rs">>
          PROVE  Last(path) = "schema.rs"
      <3>1. Len(path) = Len(root) + 2 /\ path[Len(root) + 2] = "schema.rs"
        BY <2>1, <2>2
      <3>. QED  BY <1>5, <3>1
    <2>. QED  BY <1>4, <1>5, <2>2 DEF LastNames, FileNames
  <1>17. ~IsPrefix(watch.package \o <<"src", "schema">>, path)
    <2>. DEFINE folder == root \o <<"src", "schema">>
                All == FolderNames \cup LastNames \cup {"schema"}
    <2>1. /\ folder \in Seq(All) /\ path \in Seq(All)
          /\ Len(folder) \in Nat /\ Len(folder) >= 1 /\ folder[Len(folder)] = "schema"
      <3>1. FolderNames \cup LastNames \subseteq All /\ FolderNames \subseteq All
            /\ "src" \in All /\ "schema" \in All
        BY DEF FolderNames
      <3>2. Seq(FolderNames \cup LastNames) \subseteq Seq(All) /\ Seq(FolderNames) \subseteq Seq(All)
        BY <3>1
      <3>3. root \in Seq(All) /\ path \in Seq(All)
        BY <1>5, <1>7, <3>2
      <3>. HIDE DEF root, All
      <3>. QED  BY <3>1, <3>3
    <2>. SUFFICES ASSUME IsPrefix(folder, path) PROVE FALSE
      BY <1>4
    <2>. HIDE DEF folder, All
    <2>2. Len(folder) <= Len(path) /\ path[Len(folder)] = "schema"
      BY <2>1, PrefixElements
    <2>3. path[Len(folder)] \in FolderNames \cup LastNames
      BY <1>5, <2>1, <2>2
    <2>. QED  BY <2>2, <2>3 DEF FolderNames, RootNames, LastNames, FileNames
  <1>18. RebuildPath(watch, path) <=>
           Cargo \/ (Needed /\ Last(path) = "main.rs") \/ Manifest \/ Embedded
    <2>. HIDE DEF Cargo, Needed, Manifest, Embedded
    <2>. QED  BY <1>10, <1>11, <1>13, <1>14, <1>16, <1>17 DEF RebuildPath
  <1>19. BuildReads(project, id, path) <=>
           (Cargo /\ ~Foreign) \/ (Needed /\ Last(path) = "main.rs") \/ Manifest \/ Embedded
    BY DEF BuildReads
  <1>. HIDE DEF Cargo, Needed, Manifest, Embedded, Foreign
  <1>. QED  BY <1>2, <1>3, <1>12, <1>15, <1>18, <1>19

\* The configuration of the package is a file of its own, no build reads it and
\* nothing ignores it.
LEMMA ConfigurationFile ==
  ASSUME NEW project, WatchProjectOK(project), NEW path, PathOK(path),
         NEW id \in DOMAIN project.packages, project.packages[id].local,
         NEW watch, watch = WatchSet(project, id)
  PROVE  LET restarts == path = Append(project.packages[id].root, "mads.toml")
         IN  /\ restarts <=> Front(path) = watch.package /\ Last(path) \in {".env", "mads.toml"}
             /\ restarts => /\ Belongs(project, id, path) /\ Relevant(path)
                            /\ ~BuildReads(project, id, path) /\ ~OwnerIsExcluded(watch, path)
  <1>. DEFINE root == project.packages[id].root
              restarts == path = Append(root, "mads.toml")
  <1>1. watch.package = root
    BY DEF WatchSet
  <1>2. root \in Seq(RootNames) /\ Len(root) \in Nat
    BY DEF WatchProjectOK
  <1>3. /\ Last(path) \in LastNames /\ path = Append(Front(path), Last(path))
        /\ Len(path) \in Nat /\ Len(path) >= 1 /\ path[Len(path)] = Last(path)
        /\ Len(Front(path)) = Len(path) - 1 /\ Front(path) \in Seq(FolderNames)
        /\ \A i \in 1 .. Len(path) - 1 : Front(path)[i] = path[i]
        /\ path \in Seq(FolderNames \cup LastNames)
    BY PathParts DEF PathOK, Last
  <1>4. ASSUME restarts
        PROVE  /\ Front(path) = root /\ Last(path) = "mads.toml"
               /\ \A i \in 1 .. Len(root) : path[i] = root[i]
               /\ Len(path) = Len(root) + 1
    <2>0. root \in Seq(FolderNames)
      BY RootsAreFolders
    <2>1. Front(path) = root /\ Last(path) = "mads.toml"
      BY <1>4, <2>0, FileInFolder
    <2>. QED  BY <1>2, <1>4, <2>1
  <1>5. restarts <=> Front(path) = watch.package /\ Last(path) \in {".env", "mads.toml"}
    <2>1. ".env" \notin LastNames
      BY DEF LastNames, FileNames
    <2>. QED  BY <1>1, <1>3, <1>4, <2>1
  <1>6. ASSUME restarts
        PROVE  /\ Belongs(project, id, path) /\ Relevant(path)
               /\ ~BuildReads(project, id, path) /\ ~OwnerIsExcluded(watch, path)
    <2>1. Belongs(project, id, path)
      BY <1>4, <1>6, OwnFile
    <2>2. Relevant(path)
      <3>1. \A i \in DOMAIN path : i \in 1 .. Len(root) \/ i = Len(path)
        BY <1>2, <1>3, <1>4, <1>6
      <3>2. \A i \in 1 .. Len(root) : path[i] # "target"
        BY <1>2, <1>4, <1>6 DEF RootNames
      <3>. QED  BY <1>3, <1>4, <1>6, <3>1, <3>2 DEF Relevant
    <2>3. id \in NeededBy(project, id)
      BY WatchedRoots
    <2>4. ~OwnerIsExcluded(watch, path)
      BY <2>1, <2>3, OneOwner, OwnersDecide
    <2>5. ~BuildReads(project, id, path)
      <3>1. \A known \in NeededBy(project, id) :
              path # Append(project.packages[known].root, "Cargo.toml")
        <4>. SUFFICES ASSUME NEW known \in NeededBy(project, id),
                             path = Append(project.packages[known].root, "Cargo.toml")
                      PROVE  FALSE
          OBVIOUS
        <4>1. Last(path) = "Cargo.toml"
          BY FileInFolder, RootsAreFolders DEF NeededBy
        <4>. QED  BY <1>4, <1>6, <4>1
      <3>2. path[Len(root) + 1] = "mads.toml"
        BY <1>3, <1>4, <1>6
      <3>3. /\ Last(path) # "main.rs" /\ Last(path) \notin {"Cargo.toml", "Cargo.lock"}
            /\ path[Len(root) + 1] # "migrations"
        BY <1>4, <1>6, <3>2
      <3>. QED  BY <3>1, <3>3 DEF BuildReads
    <2>. QED  BY <2>1, <2>2, <2>4, <2>5
  <1>. QED  BY <1>5, <1>6

\* What mads makes of a change to a file, for every workspace and every file of
\* one: a build for what a build reads, a restart for the configuration.
THEOREM ChangesAreClassified ==
  ASSUME NEW project, WatchProjectOK(project), NEW path, PathOK(path),
         NEW id \in DOMAIN project.packages, project.packages[id].local
  PROVE  /\ Classify(WatchSet(project, id), path) =
              IF Relevant(path) /\ BuildReads(project, id, path) THEN "Rebuild"
              ELSE IF path = Append(project.packages[id].root, "mads.toml") THEN "Restart"
              ELSE "None"
         /\ \/ Relevant(path) /\ BuildReads(project, id, path)
            \/ path = Append(project.packages[id].root, "mads.toml")
            => Reported(WatchSet(project, id), path)
  <1>. DEFINE watch == WatchSet(project, id)
              restarts == path = Append(project.packages[id].root, "mads.toml")
              builds == Relevant(path) /\ BuildReads(project, id, path)
              needed == NeededBy(project, id)
  <1>1. Ignored(path) <=> ~Relevant(path)
    BY IgnoredPaths
  <1>2. RebuildPath(watch, path) /\ ~OwnerIsExcluded(watch, path) <=> BuildReads(project, id, path)
    BY RebuildsForBuild
  <1>3. /\ restarts <=> Front(path) = watch.package /\ Last(path) \in {".env", "mads.toml"}
        /\ restarts => /\ Belongs(project, id, path) /\ Relevant(path)
                       /\ ~BuildReads(project, id, path) /\ ~OwnerIsExcluded(watch, path)
    BY ConfigurationFile
  <1>4. Classify(watch, path) = IF builds THEN "Rebuild" ELSE IF restarts THEN "Restart" ELSE "None"
    <2>. HIDE DEF watch, restarts
    <2>. QED  BY <1>1, <1>2, <1>3 DEF Classify
  <1>5. /\ id \in needed /\ needed \subseteq DOMAIN project.packages
        /\ watch.recursive = watch.local
        /\ \A known \in needed : project.packages[known].local =>
             project.packages[known].root \in watch.local
    BY WatchedRoots
  <1>6. \A known \in needed : Holds(project, known, path) => Reported(watch, path)
    <2>. SUFFICES ASSUME NEW known \in needed, Holds(project, known, path)
                  PROVE  Reported(watch, path)
      OBVIOUS
    <2>. HIDE DEF watch, needed
    <2>. QED  BY <1>5 DEF Holds, Reported
  <1>7. ASSUME Front(path) = <<"ws">> PROVE Reported(watch, path)
    <2>1. watch.flat = IF \E root \in watch.local : IsPrefix(root, <<"ws">>) THEN {} ELSE {<<"ws">>}
      BY DEF WatchSet, WatchProjectOK
    <2>2. ASSUME NEW root \in watch.local, IsPrefix(root, <<"ws">>)
          PROVE  IsPrefix(root, path)
      <3>1. PICK known \in needed : root = project.packages[known].root
        BY <2>2, WatchedRoots DEF LocalRoots
      <3>. DEFINE Names == FolderNames \cup LastNames
      <3>2. RootNames \subseteq Names /\ "ws" \in Names
        BY DEF FolderNames, RootNames
      <3>3. Seq(RootNames) \subseteq Seq(Names)
        BY <3>2
      <3>4. root \in Seq(Names) /\ path \in Seq(Names) /\ <<"ws">> \in Seq(Names)
        BY <1>5, <3>1, <3>2, <3>3 DEF WatchProjectOK, PathOK
      <3>5. /\ Len(path) >= 2 /\ path[1] = "ws"
        <4>1. /\ Len(path) \in Nat /\ Len(Front(path)) = Len(path) - 1
              /\ \A i \in 1 .. Len(path) - 1 : Front(path)[i] = path[i]
          BY PathParts
        <4>2. Len(<<"ws">>) = 1 /\ <<"ws">>[1] = "ws"
          OBVIOUS
        <4>3. Len(path) = 2
          BY <1>7, <4>1, <4>2
        <4>4. Front(path)[1] = path[1]
          BY <4>1, <4>3
        <4>. QED  BY <1>7, <4>2, <4>3, <4>4
      <3>. HIDE DEF Names
      <3>6. IsPrefix(<<"ws">>, path)
        <4>1. Len(<<"ws">>) = 1 /\ <<"ws">>[1] = "ws"
          OBVIOUS
        <4>2. Len(<<"ws">>) <= Len(path) /\ \A i \in 1 .. Len(<<"ws">>) : <<"ws">>[i] = path[i]
          BY <3>4, <3>5, <4>1
        <4>. QED  BY <3>4, <4>2, PrefixElements
      <3>. QED  BY <2>2, <3>4, <3>6, PrefixesNest
    <2>. HIDE DEF watch
    <2>. QED  BY <1>5, <1>7, <2>1, <2>2 DEF Reported
  <1>8. ASSUME BuildReads(project, id, path) PROVE Reported(watch, path)
    <2>1. CASE \E known \in needed : Belongs(project, known, path)
      BY <1>6, <2>1 DEF Belongs
    <2>2. CASE \E known \in needed :
                 path = Append(project.packages[known].root, "Cargo.toml")
                   /\ project.packages[known].local
      <3>1. PICK known \in needed :
              path = Append(project.packages[known].root, "Cargo.toml")
                /\ project.packages[known].local
        BY <2>2
      <3>2. Front(path) = project.packages[known].root
        <4>1. project.packages[known].root \in Seq(FolderNames)
          BY <1>5, RootsAreFolders
        <4>. QED  BY <3>1, <4>1, FileInFolder
      <3>3. Belongs(project, known, path)
        BY <1>5, <3>1, <3>2, OwnFile
      <3>. QED  BY <1>6, <3>3 DEF Belongs
    <2>3. CASE Front(path) = <<"ws">>
      BY <1>7, <2>3
    <2>4. CASE Belongs(project, id, path)
      BY <1>5, <1>6, <2>4 DEF Belongs
    <2>. HIDE DEF watch
    <2>. QED  BY <1>8, <2>1, <2>2, <2>3, <2>4 DEF BuildReads
  <1>9. restarts => Reported(watch, path)
    BY <1>3, <1>5, <1>6 DEF Belongs
  <1>. QED  BY <1>4, <1>8, <1>9

\* A change to some files of a workspace.
WatchCaseOK(case) ==
  /\ WatchProjectOK(case.project)
  /\ case.package \in DOMAIN case.project.packages
  /\ case.project.packages[case.package].local
  /\ case.event.kind \in {"Modify", "Access"}
  /\ \A path \in case.event.paths : PathOK(path)

\* mads dev builds when Cargo would.
LEMMA WatchFollows ==
  ASSUME topic = "watch" => WatchCaseOK(input)
  PROVE  WatchFollowsBuild
  <1>. SUFFICES ASSUME topic = "watch", WatchCaseOK(input) PROVE WatchFollowsBuild
    BY DEF WatchFollowsBuild
  <1>. DEFINE project == input.project
              watch == WatchSet(project, input.package)
              paths == input.event.paths
              Rebuilt(path) == Relevant(path) /\ BuildReads(project, input.package, path)
              Restarts(path) == path = Append(project.packages[input.package].root, "mads.toml")
              reacts == {path \in paths : Rebuilt(path)}
              restarts == {path \in paths : Restarts(path)}
  <1>1. /\ WatchProjectOK(project) /\ input.package \in DOMAIN project.packages
        /\ project.packages[input.package].local
        /\ input.event.kind \in {"Modify", "Access"}
        /\ \A path \in paths : PathOK(path)
    BY DEF WatchCaseOK
  <1>2. \A path \in paths :
          /\ Classify(watch, path) = IF Rebuilt(path) THEN "Rebuild"
                                     ELSE IF Restarts(path) THEN "Restart" ELSE "None"
          /\ Rebuilt(path) \/ Restarts(path) => Reported(watch, path)
    BY <1>1, ChangesAreClassified
  <1>. HIDE DEF watch, Rebuilt, Restarts
  <1>. DEFINE impacts == {Classify(watch, path) : path \in paths}
  <1>3. /\ "Rebuild" \in impacts <=> reacts # {}
        /\ "Restart" \in impacts <=> \E path \in paths : Restarts(path) /\ ~Rebuilt(path)
    BY <1>2
  <1>4. ClassifyEvent(watch, input.event) =
          IF input.event.kind \notin {"Create", "Modify", "Remove"} THEN "None"
          ELSE IF "Rebuild" \in impacts THEN "Rebuild"
          ELSE IF "Restart" \in impacts THEN "Restart" ELSE "None"
    BY DEF ClassifyEvent
  <1>. HIDE DEF impacts
  <1>5. ClassifyEvent(watch, input.event) =
          IF input.event.kind = "Access" THEN "None"
          ELSE IF reacts # {} THEN "Rebuild"
          ELSE IF restarts # {} THEN "Restart" ELSE "None"
    BY <1>1, <1>3, <1>4
  <1>6. \A path \in reacts \cup restarts : Reported(watch, path)
    BY <1>2
  <1>. QED  BY <1>5, <1>6 DEF WatchFollowsBuild, watch, Rebuilt, Restarts

\* A folder and a file make a path.
LEMMA FilesArePaths ==
  ASSUME NEW folder \in Seq(FolderNames), NEW file \in LastNames
  PROVE  PathOK(Append(folder, file))
  <1>. DEFINE path == Append(folder, file)
              Names == FolderNames \cup LastNames
  <1>1. path \in Seq(Names) /\ folder \in Seq(Names)
    <2>1. FolderNames \subseteq Names /\ LastNames \subseteq Names
      OBVIOUS
    <2>2. Seq(FolderNames) \subseteq Seq(Names)
      BY <2>1
    <2>. HIDE DEF Names
    <2>. QED  BY <2>1, <2>2
  <1>2. Len(path) = Len(folder) + 1 /\ path[Len(folder) + 1] = file
        /\ \A i \in 1 .. Len(folder) : path[i] = folder[i]
    OBVIOUS
  <1>3. Len(folder) \in Nat /\ Len(path) - 1 = Len(folder) /\ Len(path) > 0
    BY <1>2
  <1>4. Last(path) = file
    BY <1>2 DEF Last
  <1>. HIDE DEF path, Names
  <1>5. Front(path) = folder
    <2>. DEFINE front == SubSeq(path, 1, Len(folder))
    <2>1. front \in Seq(Names) /\ Len(front) = Len(folder)
          /\ \A i \in 1 .. Len(folder) : front[i] = folder[i]
      BY <1>1, <1>2, <1>3
    <2>2. front = folder
      BY <1>1, <2>1
    <2>. QED  BY <1>3, <2>2 DEF Front
  <1>. QED  BY <1>1, <1>3, <1>4, <1>5 DEF PathOK, path, Names

\* What a sequence is with one more at the end.
LEMMA Appending ==
  ASSUME NEW S, NEW s \in Seq(S), NEW more \in S
  PROVE  /\ Append(s, more) \in Seq(S) /\ Len(Append(s, more)) = Len(s) + 1
         /\ Append(s, more)[Len(s) + 1] = more
         /\ \A i \in 1 .. Len(s) : Append(s, more)[i] = s[i]
  OBVIOUS

\* A folder of two or three names and a file.
LEMMA NameAppended ==
  /\ \A a, b, c : Append(<<a, b>>, c) = <<a, b, c>>
  /\ \A a, b, c, d : Append(<<a, b, c>>, d) = <<a, b, c, d>>
  <1>1. ASSUME NEW a, NEW b, NEW c PROVE Append(<<a, b>>, c) = <<a, b, c>>
    <2>. DEFINE S == {a, b, c}
                s == <<a, b>>
                t == <<a, b, c>>
                more == Append(s, c)
    <2>1. s \in Seq(S) /\ Len(s) = 2 /\ s[1] = a /\ s[2] = b /\ c \in S
      OBVIOUS
    <2>2. t \in Seq(S) /\ Len(t) = 3 /\ t[1] = a /\ t[2] = b /\ t[3] = c
      OBVIOUS
    <2>. HIDE DEF S, s, t
    <2>3. /\ more \in Seq(S) /\ Len(more) = Len(s) + 1 /\ more[Len(s) + 1] = c
          /\ \A i \in 1 .. Len(s) : more[i] = s[i]
      BY <2>1, Appending
    <2>. HIDE DEF more
    <2>4. Len(more) = 3 /\ more[1] = a /\ more[2] = b /\ more[3] = c
      BY <2>1, <2>3
    <2>5. more = t
      BY <2>2, <2>3, <2>4
    <2>. QED  BY <2>5 DEF more, s, t
  <1>2. ASSUME NEW a, NEW b, NEW c, NEW d PROVE Append(<<a, b, c>>, d) = <<a, b, c, d>>
    <2>. DEFINE S == {a, b, c, d}
                s == <<a, b, c>>
                t == <<a, b, c, d>>
                more == Append(s, d)
    <2>1. s \in Seq(S) /\ Len(s) = 3 /\ s[1] = a /\ s[2] = b /\ s[3] = c /\ d \in S
      OBVIOUS
    <2>2. t \in Seq(S) /\ Len(t) = 4 /\ t[1] = a /\ t[2] = b /\ t[3] = c /\ t[4] = d
      OBVIOUS
    <2>. HIDE DEF S, s, t
    <2>3. /\ more \in Seq(S) /\ Len(more) = Len(s) + 1 /\ more[Len(s) + 1] = d
          /\ \A i \in 1 .. Len(s) : more[i] = s[i]
      BY <2>1, Appending
    <2>. HIDE DEF more
    <2>4. Len(more) = 4 /\ more[1] = a /\ more[2] = b /\ more[3] = c /\ more[4] = d
      BY <2>1, <2>3
    <2>5. more = t
      BY <2>2, <2>3, <2>4
    <2>. QED  BY <2>5 DEF more, s, t
  <1>. QED  BY <1>1, <1>2

\* The folders of the cases.
LEMMA FoldersNamed ==
  /\ Folders \subseteq Seq(FolderNames)
  /\ <<"ws", "app">> \in Seq(FolderNames) /\ <<"ws", "app", "src">> \in Seq(FolderNames)
  /\ <<"ws", "lib">> \in Seq(FolderNames)
  /\ {<<"ws">>, AppRoot, ToolRoot, LibRoot, <<"cargo", "dep">>} \subseteq Seq(RootNames)
  <1>1. \A S : \A a, b, c, d \in S :
          <<a>> \in Seq(S) /\ <<a, b>> \in Seq(S) /\ <<a, b, c>> \in Seq(S) /\ <<a, b, c, d>> \in Seq(S)
    OBVIOUS
  <1>2. "ws" \in RootNames /\ "app" \in RootNames /\ "tool" \in RootNames /\ "lib" \in RootNames
        /\ "cargo" \in RootNames /\ "dep" \in RootNames
    BY DEF RootNames
  <1>3. /\ "ws" \in FolderNames /\ "app" \in FolderNames /\ "tool" \in FolderNames
        /\ "lib" \in FolderNames /\ "cargo" \in FolderNames /\ "dep" \in FolderNames
        /\ "src" \in FolderNames /\ "migrations" \in FolderNames /\ "1" \in FolderNames
        /\ "target" \in FolderNames
    BY <1>2 DEF FolderNames
  <1>4. /\ <<"ws">> \in Seq(RootNames) /\ AppRoot \in Seq(RootNames) /\ ToolRoot \in Seq(RootNames)
        /\ LibRoot \in Seq(RootNames) /\ <<"cargo", "dep">> \in Seq(RootNames)
    <2>. QED  BY <1>1, <1>2, Zenon DEF AppRoot, ToolRoot, LibRoot
  <1>5. /\ <<"ws">> \in Seq(FolderNames) /\ <<"ws", "app">> \in Seq(FolderNames)
        /\ <<"ws", "app", "tool">> \in Seq(FolderNames) /\ <<"ws", "lib">> \in Seq(FolderNames)
        /\ <<"ws", "app", "src">> \in Seq(FolderNames)
        /\ <<"ws", "app", "tool", "src">> \in Seq(FolderNames)
        /\ <<"ws", "lib", "src">> \in Seq(FolderNames)
        /\ <<"ws", "app", "migrations", "1">> \in Seq(FolderNames)
        /\ <<"ws", "app", "target">> \in Seq(FolderNames)
        /\ <<"ws", "lib", "migrations", "1">> \in Seq(FolderNames)
        /\ <<"cargo", "dep", "src">> \in Seq(FolderNames)
    BY <1>1, <1>3, Zenon
  <1>. QED  BY <1>4, <1>5 DEF Folders, AppRoot, ToolRoot, LibRoot

\* A workspace in which either of two applications can be watched.
TwoWatched(project) ==
  /\ WatchProjectOK(project)
  /\ \A id \in {"app", "tool"} : id \in DOMAIN project.packages /\ project.packages[id].local

\* The workspaces of the cases are.
LEMMA WatchProjectsOK ==
  ASSUME NEW more \in {{}, {"whole"}}, NEW app_needs \in SUBSET {"lib", "tool"},
         NEW tool_needs \in SUBSET {"lib", "app"}
  PROVE  TwoWatched(WatchProject({"app", "tool", "lib", "dep"} \cup more, app_needs, tool_needs))
  <1>. DEFINE project == WatchProject({"app", "tool", "lib", "dep"} \cup more, app_needs, tool_needs)
              ids == {"app", "tool", "lib", "dep"} \cup more
              packages == [app |-> Package("app", AppRoot, {"app"}, NoName, app_needs),
                           tool |-> Package("tool", ToolRoot, {"tool"}, NoName, tool_needs),
                           lib |-> Package("lib", LibRoot, {}, NoName, {"dep"}),
                           dep |-> Package("dep", <<"cargo", "dep">>, {}, NoName, {}),
                           whole |-> Package("whole", <<"ws">>, {"whole"}, NoName, {"app"})]
  <1>1. /\ project.packages = [id \in ids |-> packages[id]]
        /\ project.workspace_root = <<"ws">>
    BY DEF WatchProject, Workspace
  <1>2. /\ packages["app"].root = AppRoot /\ packages["app"].dependencies = app_needs
        /\ packages["tool"].root = ToolRoot /\ packages["tool"].dependencies = tool_needs
        /\ packages["lib"].root = LibRoot /\ packages["lib"].dependencies = {"dep"}
        /\ packages["dep"].root = <<"cargo", "dep">> /\ packages["dep"].dependencies = {}
        /\ packages["whole"].root = <<"ws">> /\ packages["whole"].dependencies = {"app"}
        /\ packages["app"].local /\ packages["tool"].local
    BY DEF Package, AppRoot, ToolRoot
  <1>3. \A id \in ids : id \in {"app", "tool", "lib", "dep", "whole"}
    OBVIOUS
  <1>. HIDE DEF project, packages
  <1>4. DOMAIN project.packages = ids /\ \A id \in ids : project.packages[id] = packages[id]
    BY <1>1
  <1>5. IsFiniteSet(ids)
    <2>1. /\ IsFiniteSet({"app"}) /\ IsFiniteSet({"tool"}) /\ IsFiniteSet({"lib"})
          /\ IsFiniteSet({"dep"}) /\ IsFiniteSet(more)
      <3>1. \A x : IsFiniteSet({x})
        BY FS_Singleton
      <3>2. IsFiniteSet({})
        BY FS_EmptySet
      <3>3. CASE more = {}
        BY <3>1, <3>2, <3>3, Zenon
      <3>4. CASE more = {"whole"}
        BY <3>1, <3>4, Zenon
      <3>. QED  BY <3>3, <3>4
    <2>2. IsFiniteSet((({"app"} \cup {"tool"}) \cup ({"lib"} \cup {"dep"})) \cup more)
      BY <2>1, FS_Union
    <2>3. (({"app"} \cup {"tool"}) \cup ({"lib"} \cup {"dep"})) \cup more = ids
      OBVIOUS
    <2>. QED  BY <2>2, <2>3
  <1>6. Closed(project, ids)
    <2>1. "app" \in ids /\ "tool" \in ids /\ "lib" \in ids /\ "dep" \in ids
      OBVIOUS
    <2>2. \A id \in ids : packages[id].dependencies \subseteq ids
      BY <1>2, <1>3, <2>1
    <2>. HIDE DEF ids
    <2>. QED  BY <1>4, <2>2 DEF Closed
  <1>7. \A id \in ids : packages[id].root \in Seq(RootNames)
    BY <1>2, <1>3, FoldersNamed
  <1>8. \A id, other \in ids : packages[id].root = packages[other].root => id = other
    <2>1. /\ Len(AppRoot) = 2 /\ Len(ToolRoot) = 3 /\ Len(LibRoot) = 2
          /\ Len(<<"cargo", "dep">>) = 2 /\ Len(<<"ws">>) = 1
          /\ AppRoot[2] = "app" /\ LibRoot[2] = "lib" /\ <<"cargo", "dep">>[2] = "dep"
      BY DEF AppRoot, ToolRoot, LibRoot
    <2>. HIDE DEF ids
    <2>. QED  BY <1>2, <1>3, <2>1
  <1>9. "app" \in ids /\ "tool" \in ids
    OBVIOUS
  <1>. HIDE DEF ids
  <1>10. WatchProjectOK(project)
    <2>1. IsFiniteSet(DOMAIN project.packages) /\ Closed(project, DOMAIN project.packages)
      BY <1>4, <1>5, <1>6, Zenon
    <2>2. \A id \in DOMAIN project.packages : project.packages[id].root \in Seq(RootNames)
      BY <1>4, <1>7
    <2>3. \A id, other \in DOMAIN project.packages :
            project.packages[id].root = project.packages[other].root => id = other
      BY <1>4, <1>8
    <2>. QED  BY <1>1, <2>1, <2>2, <2>3, Zenon DEF WatchProjectOK
  <1>11. \A id \in {"app", "tool"} : project.packages[id].local
    BY <1>2, <1>4, <1>9
  <1>12. \A id \in {"app", "tool"} : id \in DOMAIN project.packages
    BY <1>4, <1>9
  <1>13. TwoWatched(project)
    BY <1>10, <1>11, <1>12 DEF TwoWatched
  <1>. QED  BY <1>13 DEF project

\* The changes that are asked about are such cases.
LEMMA WatchCasesOK ==
  ASSUME NEW case \in WatchCases
  PROVE  WatchCaseOK(case)
  <1>1. PICK project \in WatchProjects, package \in {"app", "tool"}, kind \in {"Modify", "Access"},
             path \in Files, also \in {<<"ws", "app", "mads.toml">>, <<"ws", "app", "src", "main.rs">>,
                                       <<"ws", "lib", "README.md">>} :
          case = [project |-> project, package |-> package,
                  event |-> [kind |-> kind, paths |-> {path, also}]]
    BY DEF WatchCases
  <1>2. PICK more \in {{}, {"whole"}}, app_needs \in SUBSET {"lib", "tool"},
             tool_needs \in SUBSET {"lib", "app"} :
          project = WatchProject({"app", "tool", "lib", "dep"} \cup more, app_needs, tool_needs)
    BY DEF WatchProjects
  <1>3. /\ WatchProjectOK(project)
        /\ package \in DOMAIN project.packages /\ project.packages[package].local
    <2>1. TwoWatched(project)
      BY <1>2, WatchProjectsOK
    <2>. QED  BY <2>1 DEF TwoWatched
  <1>4. PathOK(path)
    <2>1. PICK folder \in Folders, file \in FileNames : path = Append(folder, file)
      BY DEF Files
    <2>2. folder \in Seq(FolderNames) /\ file \in LastNames
      BY FoldersNamed DEF LastNames
    <2>. QED  BY <2>1, <2>2, FilesArePaths
  <1>5. PathOK(also)
    <2>1. "mads.toml" \in LastNames /\ "main.rs" \in LastNames /\ "README.md" \in LastNames
      BY DEF LastNames, FileNames
    <2>2. /\ PathOK(Append(<<"ws", "app">>, "mads.toml"))
          /\ PathOK(Append(<<"ws", "app", "src">>, "main.rs"))
          /\ PathOK(Append(<<"ws", "lib">>, "README.md"))
      BY <2>1, FoldersNamed, FilesArePaths
    <2>3. /\ Append(<<"ws", "app">>, "mads.toml") = <<"ws", "app", "mads.toml">>
          /\ Append(<<"ws", "app", "src">>, "main.rs") = <<"ws", "app", "src", "main.rs">>
          /\ Append(<<"ws", "lib">>, "README.md") = <<"ws", "lib", "README.md">>
      BY NameAppended
    <2>. QED  BY <2>2, <2>3
  <1>. QED  BY <1>1, <1>3, <1>4, <1>5 DEF WatchCaseOK

\* mads dev builds again exactly when Cargo would, restarts for the configuration,
\* and is told of all that it reacts to.
THEOREM WatchesFollowBuilds == Spec => []WatchFollowsBuild
  <1>1. CaseOfTopic => WatchFollowsBuild
    BY WatchCasesOK, WatchFollows DEF CaseOfTopic
  <1>. QED  BY <1>1, QuestionsAreCases, PTL

=============================================================================
