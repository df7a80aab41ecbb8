------------------------------- MODULE Config -------------------------------
(***************************************************************************)
(* What a Config says and how the code reads it: Validate (config.go), the *)
(* Binder for one host (client.go), and the choice of a Kerberos           *)
(* configuration, credential cache and ticket source (krb5conf.go,         *)
(* ccache.go, ticketsource.go).                                            *)
(*                                                                         *)
(* A string that is only compared with "" is a Boolean, set or not; the    *)
(* name of a credential cache is also trimmed and read for its type.  The  *)
(* TLSConfig test hook is left out.                                        *)
(***************************************************************************)
EXTENDS Integers, FiniteSets

CONSTANTS Hosts,    \* names of domain controllers
          RealmOf,  \* RealmOf[h]: h's domain suffix in capitals, "" for a bare name
          Nil

Realms == {RealmOf[h] : h \in Hosts}

\* The name of a credential cache: none, white space, a FILE cache, a type Go cannot read.
CacheNames == {"", "blank", "file", "keyring"}

SimpleAuths == [user : BOOLEAN, password : BOOLEAN]
NTLMAuths == [user : BOOLEAN]
KerberosAuths == [ccache : CacheNames, keytab : BOOLEAN, password : BOOLEAN, user : BOOLEAN,
                  realm : Realms \union {""}, conf : BOOLEAN, spn : BOOLEAN]
Configs == [server : Hosts \union {""}, tls : {"ldaps", "starttls", "", "plain"},
            ca : {"", "good", "bad"}, skip : BOOLEAN,
            Simple : {Nil} \union SimpleAuths, Kerberos : {Nil} \union KerberosAuths,
            NTLM : {Nil} \union NTLMAuths]

\* The process's environment: KRB5CCNAME and /etc/krb5.conf.
Environments == [ccname : CacheNames, krb5 : {"absent", "good", "bad"}]

ASSUME ConfigAssumption ==
    /\ Hosts \intersect {"", "explicit", Nil} = {}
    /\ DOMAIN RealmOf = Hosts
-----------------------------------------------------------------------------
AuthBlocks(c) == {b \in {"Simple", "Kerberos", "NTLM"} : c[b] # Nil}

\* The ticket sources a Kerberos block names.
Sources(k) == (IF k.ccache # "" THEN {"ccache"} ELSE {})
              \union (IF k.keytab THEN {"keytab"} ELSE {})
              \union (IF k.password THEN {"password"} ELSE {})

\* Mutant of Validate: two sources may be named.
ValidateAnySource(c) ==
    /\ c.server # "" /\ c.tls \in {"ldaps", "starttls"}
    /\ Cardinality(AuthBlocks(c)) = 1
    /\ c.Simple # Nil => c.Simple.user
    /\ c.NTLM # Nil => c.NTLM.user
    /\ c.Kerberos # Nil => (c.Kerberos.password \/ c.Kerberos.keytab => c.Kerberos.user)

\* Config.Validate returns nil; it is a Constraint error otherwise.
Validate(c) ==
    /\ c.server # "" /\ c.tls \in {"ldaps", "starttls"}
    /\ Cardinality(AuthBlocks(c)) = 1
    /\ c.Simple # Nil => c.Simple.user
    /\ c.NTLM # Nil => c.NTLM.user
    /\ c.Kerberos # Nil =>
         /\ Cardinality(Sources(c.Kerberos)) <= 1
         /\ c.Kerberos.password \/ c.Kerberos.keytab => c.Kerberos.user

\* BuildTLSConfig: a CA file that cannot be read or holds no certificate is an error.
TLSConfigBuilds(c) == c.ca # "bad"

RealmFromServer(h) == RealmOf[h]

\* The mechanism, in the order the blocks are tried.
Mechanism(c) == IF c.Simple # Nil THEN "Simple" ELSE IF c.Kerberos # Nil THEN "Kerberos" ELSE "NTLM"

\* The realm of a Kerberos block, the pinned server's when it names none.
BinderRealm(c) == IF c.Kerberos = Nil THEN ""
                  ELSE IF c.Kerberos.realm = "" THEN RealmFromServer(c.server)
                  ELSE c.Kerberos.realm

\* Mutant of binderForHost: the binder of the pinned controller serves every host.
binderForHostPinned(c, h) ==
    [mech |-> Mechanism(c), auth |-> c[Mechanism(c)], host |-> c.server, realm |-> BinderRealm(c)]

\* binderForHost: the realm is the server's, the service that of the host dialled.
binderForHost(c, h) ==
    [mech |-> Mechanism(c), auth |-> c[Mechanism(c)], host |-> h, realm |-> BinderRealm(c)]

\* The service principal: ldap/<host>, represented by the host, unless one is given.
spn(b) == IF b.auth.spn THEN "explicit" ELSE b.host
-----------------------------------------------------------------------------
\* strings.TrimSpace of a name leaves nothing.
TrimsAway(name) == name \in {"", "blank"}

\* ResolveCCachePath: which cache is read, Nil for an error.  An explicit name wins over
\* KRB5CCNAME and is read the same way; both are trimmed first, so that a blank one is
\* none here, although Validate counted it as a source.
ResolveCCachePath(explicit, env) ==
    CASE explicit = "file" -> "ccache"
      [] TrimsAway(explicit) /\ env.ccname = "file" -> "ambient"
      [] OTHER -> Nil

\* loadKrb5Conf finds a configuration: the named one (which newTicketSource may fail to
\* read), the system's, or one synthesized from the realm and the KDC.
Krb5ConfLoads(k, realm, env) ==
    \/ k.conf
    \/ ~k.conf /\ env.krb5 = "good"
    \/ ~k.conf /\ env.krb5 = "absent" /\ realm # ""

\* newTicketSource, in its order: keytab, password, cache.  The set of what may come
\* out: a source, or Nil for an error, as when a file cannot be read.
newTicketSource(b, env) ==
    LET realm == IF b.realm = "" THEN RealmFromServer(b.host) ELSE b.realm
        path == ResolveCCachePath(b.auth.ccache, env)
        file == IF b.auth.keytab THEN "keytab" ELSE path
    IN IF ~Krb5ConfLoads(b.auth, realm, env) THEN {Nil}
       ELSE IF b.auth.keytab \/ ~b.auth.password
       THEN {Nil} \union (IF file = Nil \/ (b.auth.keytab /\ ~b.auth.user) THEN {}
                          ELSE {[from |-> file, realm |-> IF b.auth.keytab THEN realm ELSE ""]})
       ELSE (IF b.auth.conf THEN {Nil} ELSE {}) \union
            (IF b.auth.user THEN {[from |-> "password", realm |-> realm]} ELSE {Nil})
=============================================================================
