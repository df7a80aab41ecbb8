------------------------------ MODULE MCClient ------------------------------
(* Configurations for TLC: a few good ones, and from each of them every     *)
(* configuration that differs in what one check of the code looks at; and   *)
(* beside the clients the inputs of the functions that keep no state.       *)
EXTENDS Client, Lookup, Attrs

VARIABLE input  \* what a function is applied to, [of |-> "client"] while a client lives

dc1 == "dc1.corp"
bare == "dc2"
MCHosts == {dc1, bare}
MCRealmOf == [h \in MCHosts |-> IF h = dc1 THEN "CORP" ELSE ""]

Krb == [ccache |-> "", keytab |-> TRUE, password |-> FALSE, user |-> TRUE,
        realm |-> "", conf |-> FALSE, spn |-> FALSE]
Plain == [server |-> dc1, tls |-> "ldaps", ca |-> "good", skip |-> FALSE,
         Simple |-> Nil, Kerberos |-> Krb, NTLM |-> Nil]
Env == [ccname |-> "", krb5 |-> "absent"]

\* Every choice of sources, with and without a user.
SourceConfigs ==
    {[Plain EXCEPT !.Kerberos = [Krb EXCEPT !.ccache = c, !.keytab = kt, !.password = pw, !.user = u]] :
       c \in CacheNames, kt \in BOOLEAN, pw \in BOOLEAN, u \in BOOLEAN}

\* A pinned server with and without a domain, a realm given or not, an explicit service,
\* an unverified certificate, StartTLS, a named Kerberos configuration.
HostConfigs ==
    {[Plain EXCEPT !.server = h, !.skip = sk, !.Kerberos = [Krb EXCEPT !.realm = r, !.spn = p]] :
       h \in MCHosts, sk \in BOOLEAN, r \in {"", "CORP"}, p \in BOOLEAN}
    \union {[Plain EXCEPT !.tls = t] : t \in {"starttls", "", "plain"}}
    \union {[Plain EXCEPT !.server = h, !.Kerberos = [Krb EXCEPT !.conf = TRUE, !.keytab = kt,
                                                     !.password = ~kt]] :
              h \in MCHosts, kt \in BOOLEAN}

OtherConfigs ==
    {[Plain EXCEPT !.server = ""], [Plain EXCEPT !.ca = "bad"], [Plain EXCEPT !.Kerberos = Nil]}
    \union {[Plain EXCEPT !.Kerberos = Nil, !.Simple = a] : a \in SimpleAuths}
    \union {[Plain EXCEPT !.Kerberos = k, !.NTLM = a, !.tls = "starttls"] : a \in NTLMAuths, k \in {Nil, Krb}}

MCStartConfigs ==
    [cfg : SourceConfigs, env : {Env}]
    \union [cfg : {c \in SourceConfigs : ~c.Kerberos.keytab /\ ~c.Kerberos.password}, env : Environments]
    \union [cfg : HostConfigs, env : {Env, [Env EXCEPT !.krb5 = "good"]}]
    \union [cfg : OtherConfigs, env : {Env}]
-----------------------------------------------------------------------------
Wraps == [of : {"wrap"}, len : (0..48) \union (65500..65600), ec : (0..32) \union (65500..65535)]

Searches == [of : {"search"}, scope : {"one", "sub"}, server : Servers, limit : 1..3,
             found : {[k \in 1..n |-> k] : n \in 0..5}]

\* Two of the accounts share a sAMAccountName, as a user and a computer may not.
Objects == {[dn |-> "d1", guid |-> "g1", sam |-> "a", class |-> "user"],
            [dn |-> "d2", guid |-> "g2", sam |-> "a", class |-> "computer"],
            [dn |-> "d3", guid |-> "g3", sam |-> "b", class |-> "user"],
            [dn |-> "d4", guid |-> "g4", sam |-> "a", class |-> "group"]}
Identities == [form : {"sam"}, arg : {"a", "b"}, formed : {TRUE}]
              \union [form : {"guid"}, arg : {"g1", "g3"}, formed : BOOLEAN]
              \union [form : {"dn"}, arg : {"d1"}, formed : {TRUE}]
Gets == [of : {"get"}, objects : SUBSET Objects, id : Identities, class : {"*", "user"}, server : Servers]

SchemaObjects == {[kind |-> "attribute", name |-> "mail", guid |-> "g1", whole |-> TRUE],
                  [kind |-> "class", name |-> "mail", guid |-> "g2", whole |-> TRUE],
                  [kind |-> "right", name |-> "Send As", guid |-> "g3", whole |-> TRUE],
                  [kind |-> "right", name |-> "Send As", guid |-> "g4", whole |-> TRUE],
                  [kind |-> "class", name |-> "user", guid |-> "g5", whole |-> FALSE]}
Refs == {[kind |-> "attribute", name |-> "mail"], [kind |-> "class", name |-> "mail"],
         [kind |-> "right", name |-> "Send As"], [kind |-> "class", name |-> "user"],
         [kind |-> "class", name |-> "guid"], [kind |-> "other", name |-> "mail"]}
Resolves == [of : {"resolve"}, schema : SUBSET SchemaObjects,
             refs : UNION {[1..n -> Refs] : n \in 0..2}, server : Servers]

\* Sixteen bytes that are all different, and one too few or too many.
GUIDs == [of : {"guid"}, bytes : {[k \in 1..n |-> k - 1] : n \in 15..17}]

\* Bytes of either extreme in every place.
SIDs == [of : {"sid"},
         bytes : {<<1, n>> \o a \o s : n \in 0..2, a \in [1..6 -> {0, Base - 1}],
                  s \in {x \o y : x \in [1..4 -> {0, Base - 1}], y \in {<<>>, <<1, 2, 3, 0>>}}
                        \union {<<>>}}]

Conversions ==
    [of : {"word"}, v : 0..(2^WordBits - 1)]
    \union [of : {"group"}, g : [scope : DOMAIN ScopeBits, category : {"Security", "Distribution"}]]
    \union GUIDs \union SIDs
    \union [of : {"filetime"}, v : 0..FileTimeNever]
    \union [of : {"enctypes"}, names : UNION {[1..n -> {"DES-CBC-CRC", "RC4", "RC4-HMAC-MD5", "AES128",
                                  "AES256-CTS-HMAC-SHA1-96", "Blowfish"}] : n \in 0..3}]

Inputs == Wraps \union Searches \union Gets \union Resolves \union Conversions

MCInit == ClientInit /\ input = [of |-> "client"]

Live == input.of = "client" /\ ClientNext /\ UNCHANGED input

Apply ==
    /\ life = "start" /\ cfg = Plain /\ env = Env /\ input.of = "client"
    /\ input' \in Inputs
    /\ UNCHANGED vars

MCNext == Live \/ Apply

MCSpec == MCInit /\ [][MCNext]_<<vars, input>>

\* No look-up returns part of an answer: a search returns all matches or an error, and an
\* error only when there are more than asked for; getOne and resolveDN the only object
\* that has the identity; Resolve a GUID for every reference or an error -- however the
\* server treats a size limit.
LookupNeverPartial ==
    /\ input.of = "search" => SearchIsWhole(input)
    /\ input.of = "get" => LookupIsExact(input)
    /\ input.of = "resolve" => ResolveIsTotal(input)

\* The readers and writers of wire formats agree: what is written to an attribute reads
\* back as the same value (words over the sign bit, group types, GUIDs and SIDs with their
\* mixed byte orders, encryption types, dates as far as 64 bits of nanoseconds reach),
\* and no EC field makes unmarshalWrapToken slice outside its input, also where 16 bits
\* of it are nearly used up: checksum and payload tile what follows the header.
WireFormatsHold ==
    CASE input.of = "word" -> WordSurvives(input.v)
      [] input.of = "group" -> GroupTypeSurvives(input.g)
      [] input.of = "guid" -> GUIDSurvives(input.bytes)
      [] input.of = "sid" -> SIDSurvives(input.bytes)
      [] input.of = "filetime" -> FileTimeSurvives(input.v)
      [] input.of = "enctypes" -> EncTypesSurvive(input.names)
      [] input.of = "wrap" -> WrapTokenInRange(input.len, input.ec)
      [] OTHER -> TRUE
=============================================================================
