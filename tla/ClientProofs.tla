---------------------------- MODULE ClientProofs ----------------------------
(***************************************************************************)
(* Proofs about Bind and Client, for every Config and environment New may  *)
(* be called with, every set of hosts, every number of tickets and         *)
(* whatever the server and the KDC answer: a bound session talks to the    *)
(* host it dialled, with the credential the configuration picked, and      *)
(* nothing of a connection or a credential is left behind.                 *)
(* And about Lookup's functions, for every finite directory: an answer is  *)
(* whole or an error.                                                      *)
(***************************************************************************)
EXTENDS Client, Lookup, FiniteSetTheorems, SequenceTheorems, WellFoundedInduction,
        TLAPS

\* What the server may have sent, whichever key it was made under.
AnyToken == [t : {"none", "junk", "krberror", "other"}]
            \union [t : {"aprep"}, key : Int, sub : BOOLEAN]
            \union [t : {"wrap"}, key : Int, sub : BOOLEAN, fits : BOOLEAN]

Credentials == [from : {"keytab", "password", "ccache", "ambient"}, realm : Realms \union {""}]

Sessions == [at : {"off", "plain", "tls", "gss", "sent", "bound"},
             host : Hosts \union {Nil}, cert : Hosts \union {Nil}, src : Credentials \union {Nil},
             ekey : Int, subkey : Int, need : BOOLEAN, recv : AnyToken,
             asked : {Nil} \union [spn : Hosts \union {"explicit"}, key : Int, cbt : Hosts],
             proven : Int, err : {Nil, "Transport", "Denied", "Refused"}]

\* The mechanism of every bind under this configuration is Kerberos.
Kerberized == cfg.Simple = Nil /\ cfg.Kerberos # Nil

\* A session exists only under a valid configuration, and an error only without one.
Alive(x) == x.at # "off" => Validate(cfg) /\ x.host \in Hosts /\ x.err = Nil

\* A failed or closed session holds nothing; a bound one no credential and no key.
Clean(x) == x.at \in {"off", "bound"} => x.src = Nil /\ x.ekey = 0 /\ x.subkey = 0

\* Past the handshake the certificate is one that was verified for the host.
Certified(x) == x.at \notin {"off", "plain"} => x.cert \in Verified(x.host)

\* The credential is the one CredentialPicked allows, and only a Kerberos bind has one.
Picked(c) ==
    LET k == cfg.Kerberos
    IN /\ Kerberized
       /\ IF Sources(k) = {} \/ (Sources(k) = {"ccache"} /\ k.ccache = "blank")
          THEN c.from = "ambient" /\ env.ccname = "file"
          ELSE Sources(k) = {c.from}
       /\ c.from \in {"keytab", "password"} =>
            \/ c.realm = k.realm
            \/ k.realm = "" /\ RealmOf[cfg.server] \in {c.realm, ""}

\* Which mechanism a session in the middle of its bind is using.
Mechanical(x) ==
    /\ x.src # Nil => Picked(x.src)
    /\ x.at = "gss" \/ (x.at = "sent" /\ x.need) => Kerberized
    /\ x.at \in {"sent", "bound"} /\ cfg.Simple # Nil => cfg.Simple.password
    /\ x.at = "bound" => ~x.need

\* Nothing was exchanged before the bind.
Fresh(x) == x.at \in {"plain", "tls"} => x.need /\ x.recv.t = "none"

\* The last AP-REQ was for this host's service, this connection and the key in use.
Requested(x) ==
    /\ x.asked.spn = IF cfg.Kerberos.spn THEN "explicit" ELSE x.host
    /\ x.asked.cbt = x.cert

\* From the first request on, the key in use is the one last asked for, and a context
\* is complete only when the server proved that it holds that key.
Proven(x) ==
    Kerberized =>
      /\ x.at = "sent" \/ (x.at = "gss" /\ (~x.need \/ x.recv.t # "none")) =>
           Requested(x) /\ x.asked.key = x.ekey
      /\ x.at \in {"gss", "sent"} /\ ~x.need => x.proven = x.ekey
      /\ x.at = "bound" => Requested(x) /\ x.proven = x.asked.key

SessionOK(x) ==
    /\ x \in Sessions
    /\ Alive(x) /\ Clean(x) /\ Certified(x) /\ Fresh(x) /\ Mechanical(x) /\ Proven(x)

BindInv ==
    /\ cfg \in Configs /\ env \in Environments /\ keys \in Nat
    /\ sess \in [Slots -> Sessions]
    /\ \A s \in Slots : SessionOK(sess[s])

\* Who may own a connection at this point of the client's life.
Owned ==
    /\ life \in {"start", "acquire", "backoff", "ready", "failed", "closed"}
    /\ lent \in BOOLEAN
    /\ life \notin {"start", "failed"} => Validate(cfg)
    /\ life \in {"start", "failed"} => sess["pool"].at = "off" /\ ~lent
    /\ life \in {"start", "acquire", "backoff", "failed"} => sess["probe"].at = "off"
    /\ life = "closed" /\ ~lent => sess["pool"].at = "off"

ClientInv == BindInv /\ Owned
-----------------------------------------------------------------------------
(* What Validate and newTicketSource guarantee. *)

\* Exactly one block: where there is a Kerberos block there is no Simple one.
LEMMA OneBlock ==
  ASSUME NEW c \in Configs, Validate(c)
  PROVE  /\ c.server \in Hosts
         /\ c.Kerberos # Nil => c.Simple = Nil /\ c.NTLM = Nil
         /\ c.NTLM # Nil => c.Simple = Nil
         /\ c.Simple = Nil /\ c.Kerberos = Nil => c.NTLM # Nil
  <1>1. AuthBlocks(c) \subseteq {"Simple", "Kerberos", "NTLM"}
    BY DEF AuthBlocks
  <1>2. IsFiniteSet({"Simple", "Kerberos", "NTLM"})
    <2>1. IsFiniteSet({}) 
      BY FS_EmptySet
    <2>2. IsFiniteSet({} \union {"Simple"} \union {"Kerberos"} \union {"NTLM"})
      BY <2>1, FS_AddElement
    <2>3. {} \union {"Simple"} \union {"Kerberos"} \union {"NTLM"} = {"Simple", "Kerberos", "NTLM"}
      OBVIOUS
    <2> QED
      BY <2>2, <2>3
  <1>3. IsFiniteSet(AuthBlocks(c))
    BY <1>1, <1>2, FS_Subset
  <1>4. PICK b : AuthBlocks(c) = {b}
    BY <1>3, FS_Singleton DEF Validate
  <1>5. /\ c.Simple # Nil <=> "Simple" \in AuthBlocks(c)
        /\ c.Kerberos # Nil <=> "Kerberos" \in AuthBlocks(c)
        /\ c.NTLM # Nil <=> "NTLM" \in AuthBlocks(c)
    BY DEF AuthBlocks, Configs
  <1>6. c.server \in Hosts
    BY DEF Validate, Configs
  <1> QED
    BY <1>1, <1>4, <1>5, <1>6

\* At most one source: the one that is found is the only one named.
LEMMA OneSource ==
  ASSUME NEW c \in Configs, Validate(c), c.Kerberos # Nil, NEW f \in Sources(c.Kerberos)
  PROVE  Sources(c.Kerberos) = {f}
  <1> DEFINE S == Sources(c.Kerberos)
  <1>1. S \subseteq {"ccache", "keytab", "password"}
    BY DEF Sources
  <1>2. IsFiniteSet({"ccache", "keytab", "password"})
    <2>1. IsFiniteSet({}) 
      BY FS_EmptySet
    <2>2. IsFiniteSet({} \union {"ccache"} \union {"keytab"} \union {"password"})
      BY <2>1, FS_AddElement
    <2>3. {} \union {"ccache"} \union {"keytab"} \union {"password"} = {"ccache", "keytab", "password"}
      OBVIOUS
    <2> QED
      BY <2>2, <2>3
  <1>3. IsFiniteSet(S)
    BY <1>1, <1>2, FS_Subset
  <1>4. Cardinality(S) \in Nat /\ Cardinality(S) <= 1 /\ S # {}
    BY <1>3, FS_CardinalityType DEF Validate
  <1> HIDE DEF S
  <1>5. Cardinality(S) = 1
    BY <1>3, <1>4, FS_EmptySet
  <1>6. PICK b : S = {b}
    BY <1>3, <1>5, FS_Singleton
  <1>7. f \in S
    BY DEF S
  <1> QED
    BY <1>6, <1>7 DEF S

\* newTicketSource opens the source the configuration picked, in the realm it picked.
LEMMA TicketSource ==
  ASSUME cfg \in Configs, env \in Environments, Validate(cfg), Kerberized, NEW h \in Hosts,
         NEW c \in newTicketSource(binderForHost(cfg, h), env), c # Nil
  PROVE  c \in Credentials /\ Picked(c)
  <1> DEFINE k == cfg.Kerberos
             b == binderForHost(cfg, h)
             realm == IF b.realm = "" THEN RealmFromServer(b.host) ELSE b.realm
  <1>1. k \in KerberosAuths /\ cfg.server \in Hosts
    BY OneBlock DEF Kerberized, Configs
  <1>2. b.auth = k /\ b.host = h
        /\ b.realm = IF k.realm = "" THEN RealmOf[cfg.server] ELSE k.realm
    BY DEF Kerberized, binderForHost, Mechanism, BinderRealm, RealmFromServer
  <1>3. /\ realm \in Realms \union {""}
        /\ \/ realm = k.realm
           \/ k.realm = "" /\ RealmOf[cfg.server] \in {realm, ""}
    BY <1>1, <1>2 DEF KerberosAuths, Realms, RealmFromServer
  <1> DEFINE path == ResolveCCachePath(k.ccache, env)
             file == IF k.keytab THEN "keytab" ELSE path
  <1>4. \/ /\ k.keytab \/ ~k.password
           /\ file # Nil
           /\ c = [from |-> file, realm |-> IF k.keytab THEN realm ELSE ""]
        \/ ~k.keytab /\ k.password /\ c = [from |-> "password", realm |-> realm]
    <2>1. CASE ~Krb5ConfLoads(b.auth, realm, env)
      <3>1. c \in {Nil}
        BY <2>1 DEF newTicketSource
      <3> QED
        BY <3>1
    <2>2. CASE Krb5ConfLoads(b.auth, realm, env) /\ (b.auth.keytab \/ ~b.auth.password)
      <3>1. c \in {Nil} \union (IF file = Nil \/ (k.keytab /\ ~k.user) THEN {}
                            ELSE {[from |-> file, realm |-> IF k.keytab THEN realm ELSE ""]})
        BY <1>2, <2>2 DEF newTicketSource
      <3> QED
        BY <1>2, <2>2, <3>1
    <2>3. CASE Krb5ConfLoads(b.auth, realm, env) /\ ~(b.auth.keytab \/ ~b.auth.password)
      <3>1. c \in (IF k.conf THEN {Nil} ELSE {}) \union
                     (IF k.user THEN {[from |-> "password", realm |-> realm]} ELSE {Nil})
        BY <1>2, <2>3 DEF newTicketSource
      <3> QED
        BY <1>2, <2>3, <3>1
    <2> QED
      BY <2>1, <2>2, <2>3
  <1>5. path # Nil => \/ path = "ccache" /\ k.ccache = "file"
                      \/ path = "ambient" /\ k.ccache \in {"", "blank"} /\ env.ccname = "file"
    BY DEF ResolveCCachePath, TrimsAway
  <1> HIDE DEF realm, path, b
  <1>6. CASE k.keytab
    <2>1. c = [from |-> "keytab", realm |-> realm]
      BY <1>4, <1>6
    <2>2. "keytab" \in Sources(k)
      BY <1>6 DEF Sources
    <2>3. Sources(k) = {"keytab"}
      BY <2>2, OneSource DEF Kerberized
    <2> QED
      BY <1>3, <2>1, <2>3 DEF Picked, Credentials
  <1>7. CASE ~k.keytab /\ k.password
    <2>1. c = [from |-> "password", realm |-> realm]
      BY <1>4, <1>7
    <2>2. "password" \in Sources(k)
      BY <1>7 DEF Sources
    <2>3. Sources(k) = {"password"}
      BY <2>2, OneSource DEF Kerberized
    <2> QED
      BY <1>3, <2>1, <2>3 DEF Picked, Credentials
  <1>8. CASE ~k.keytab /\ ~k.password
    <2>1. c = [from |-> path, realm |-> ""] /\ path # Nil
      BY <1>4, <1>8
    <2>2. CASE path = "ccache" /\ k.ccache = "file"
      <3>1. "ccache" \in Sources(k)
        BY <2>2 DEF Sources
      <3>2. Sources(k) = {"ccache"}
        BY <3>1, OneSource DEF Kerberized
      <3> QED
        BY <2>1, <2>2, <3>2 DEF Picked, Credentials
    <2>3. CASE path = "ambient" /\ k.ccache \in {"", "blank"} /\ env.ccname = "file"
      <3>1. Sources(k) = {} \/ (Sources(k) = {"ccache"} /\ k.ccache = "blank")
        BY <1>8, <2>3 DEF Sources
      <3> QED
        BY <2>1, <2>3, <3>1 DEF Picked, Credentials
    <2> QED
      BY <1>5, <2>1, <2>2, <2>3
  <1> QED
    BY <1>6, <1>7, <1>8
-----------------------------------------------------------------------------
(* One lemma per step of a bind: the session it leaves is in order. *)

\* The session of s becomes one that is in order, nothing else changes but the number
\* of tickets.
Sound(s) ==
    /\ UNCHANGED <<cfg, env>> /\ keys' \in Nat
    /\ \E r : SessionOK(r) /\ Now(s, r)

LEMMA ClosedType ==
  /\ Closed \in Sessions
  /\ Closed.at = "off" /\ Closed.src = Nil /\ Closed.ekey = 0 /\ Closed.subkey = 0
  /\ Closed.err = Nil /\ Closed.need /\ Closed.recv.t = "none"
  <1>1. NoToken \in AnyToken /\ NoToken.t = "none"
    BY DEF NoToken, AnyToken
  <1> QED
    BY <1>1 DEF Closed, Sessions

\* A session without a bind, closed or just dialled, with all else as in Closed.
LEMMA EarlyOK ==
  ASSUME NEW r \in Sessions, r.at \in {"off", "plain", "tls"}, Alive(r), Certified(r),
         r.src = Closed.src, r.ekey = Closed.ekey, r.subkey = Closed.subkey,
         r.need = Closed.need, r.recv = Closed.recv
  PROVE  SessionOK(r)
  BY ClosedType DEF SessionOK, Clean, Fresh, Mechanical, Proven

LEMMA ClosedOK == SessionOK(Closed)
  BY ClosedType, EarlyOK DEF Alive, Certified

\* The record of a failed attempt.
LEMMA FailedOK ==
  ASSUME NEW e \in {"Transport", "Denied", "Refused"}
  PROVE  SessionOK([Closed EXCEPT !.err = e])
  <1> DEFINE r == [Closed EXCEPT !.err = e]
  <1>1. /\ r \in Sessions /\ r.at = "off" /\ r.src = Closed.src /\ r.ekey = Closed.ekey
        /\ r.subkey = Closed.subkey /\ r.need = Closed.need /\ r.recv = Closed.recv
    BY ClosedType DEF Sessions
  <1> HIDE DEF r
  <1>2. SessionOK(r)
    BY <1>1, EarlyOK DEF Alive, Certified
  <1> QED
    BY <1>2 DEF r

LEMMA FailSound ==
  ASSUME NEW s \in Slots, NEW e \in {"Transport", "Denied", "Refused"}, Fail(s, e),
         UNCHANGED <<cfg, env>>, keys' \in Nat
  PROVE  Sound(s)
  BY FailedOK DEF Fail, Sound

\* A handshake accepts only a certificate that verifies.
LEMMA HandshakeOK ==
  ASSUME NEW s \in Slots, NEW h \in Hosts, Validate(cfg), Handshake(s, h),
         UNCHANGED <<cfg, env>>, keys' \in Nat
  PROVE  Sound(s)
  <1>1. PICK c \in Verified(h) : Now(s, [Closed EXCEPT !.at = "tls", !.host = h, !.cert = c])
    BY DEF Handshake
  <1>2. c \in Hosts
    BY DEF Verified
  <1> DEFINE r == [Closed EXCEPT !.at = "tls", !.host = h, !.cert = c]
  <1>3. /\ r \in Sessions /\ r.at = "tls" /\ r.host = h /\ r.cert = c /\ r.err = Nil
        /\ r.src = Closed.src /\ r.ekey = Closed.ekey
        /\ r.subkey = Closed.subkey /\ r.need = Closed.need /\ r.recv = Closed.recv
    BY <1>2, ClosedType DEF Sessions
  <1> HIDE DEF r
  <1>4. SessionOK(r)
    BY <1>3, EarlyOK DEF Alive, Certified
  <1> QED
    BY <1>1, <1>4 DEF Sound, r

LEMMA DialSound ==
  ASSUME BindInv, Validate(cfg), NEW s \in Slots, NEW h \in Hosts, Dial(s, h)
  PROVE  Sound(s)
  <1>1. keys' \in Nat /\ UNCHANGED <<cfg, env>>
    BY DEF Dial, BindInv
  <1>2. CASE Now(s, [Closed EXCEPT !.at = "plain", !.host = h])
    <2> DEFINE r == [Closed EXCEPT !.at = "plain", !.host = h]
    <2>1. /\ r \in Sessions /\ r.at = "plain" /\ r.host = h /\ r.err = Nil
          /\ r.src = Closed.src /\ r.ekey = Closed.ekey
          /\ r.subkey = Closed.subkey /\ r.need = Closed.need /\ r.recv = Closed.recv
      BY ClosedType DEF Sessions
    <2> HIDE DEF r
    <2>2. SessionOK(r)
      BY <2>1, EarlyOK DEF Alive, Certified
    <2> QED
      BY <1>1, <1>2, <2>2 DEF Sound, r
  <1> QED
    BY <1>1, <1>2, FailSound, HandshakeOK DEF Dial

LEMMA StartTLSSound ==
  ASSUME BindInv, NEW s \in Slots, StartTLS(s)
  PROVE  Sound(s)
  <1>1. SessionOK(sess[s]) /\ keys' \in Nat
    BY DEF BindInv, StartTLS
  <1>2. Validate(cfg) /\ sess[s].host \in Hosts
    BY <1>1 DEF SessionOK, Alive, StartTLS
  <1> QED
    BY <1>1, <1>2, FailSound, HandshakeOK DEF StartTLS

\* The two binds without a context: nothing is sent under an empty password.
LEMMA PlainBindSound ==
  ASSUME BindInv, NEW s \in Slots, SimpleBind(s) \/ NTLMBind(s)
  PROVE  Sound(s)
  <1> DEFINE r == [sess[s] EXCEPT !.at = "sent", !.need = FALSE]
  <1>1. SessionOK(sess[s]) /\ keys' \in Nat /\ UNCHANGED <<cfg, env>> /\ sess[s].at = "tls"
    BY DEF BindInv, SimpleBind, NTLMBind
  <1>2. Validate(cfg) /\ cfg \in Configs
    BY <1>1 DEF SessionOK, Alive, BindInv
  <1>3. CASE Fail(s, "Transport")
    BY <1>1, <1>3, FailSound
  <1>4. CASE Now(s, r) /\ Mechanism(cfg) # "Kerberos" /\ (cfg.Simple # Nil => cfg.Simple.password)
    <2>1. ~Kerberized
      BY <1>4 DEF Mechanism, Kerberized
    <2>2. /\ r \in Sessions /\ r.at = "sent" /\ ~r.need
          /\ r.host = sess[s].host /\ r.cert = sess[s].cert /\ r.src = sess[s].src
          /\ r.err = sess[s].err
      BY <1>1 DEF SessionOK, Sessions
    <2> HIDE DEF r
    <2>3. SessionOK(r)
      BY <1>1, <1>4, <2>1, <2>2 DEF SessionOK, Alive, Clean, Certified, Fresh, Mechanical, Proven
    <2> QED
      BY <1>1, <1>4, <2>3 DEF Sound
  <1> QED
    BY <1>3, <1>4 DEF SimpleBind, NTLMBind, binder, binderForHost, Mechanism

\* KerberosBind goes on with the credential the configuration picked.
LEMMA KerberosBindSound ==
  ASSUME BindInv, NEW s \in Slots, KerberosBind(s)
  PROVE  Sound(s)
  <1>1. /\ SessionOK(sess[s]) /\ keys' \in Nat /\ UNCHANGED <<cfg, env>> /\ sess[s].at = "tls"
        /\ cfg \in Configs /\ env \in Environments
    BY DEF BindInv, KerberosBind
  <1>2. Validate(cfg) /\ sess[s].host \in Hosts
    BY <1>1 DEF SessionOK, Alive
  <1>3. Kerberized
    BY DEF KerberosBind, binder, binderForHost, Mechanism, Kerberized
  <1>4. PICK c \in newTicketSource(binder(s), env) :
             IF sess[s].cert = Nil \/ c = Nil THEN Fail(s, "Transport")
             ELSE Now(s, [sess[s] EXCEPT !.at = "gss", !.src = c])
    BY DEF KerberosBind
  <1>5. CASE Fail(s, "Transport")
    BY <1>1, <1>5, FailSound
  <1>6. CASE c # Nil /\ Now(s, [sess[s] EXCEPT !.at = "gss", !.src = c])
    <2> DEFINE r == [sess[s] EXCEPT !.at = "gss", !.src = c]
    <2>1. c \in Credentials /\ Picked(c)
      BY <1>1, <1>2, <1>3, <1>4, <1>6, TicketSource DEF binder
    <2>2. /\ r \in Sessions /\ r.at = "gss" /\ r.src = c
          /\ r.host = sess[s].host /\ r.cert = sess[s].cert /\ r.err = sess[s].err
          /\ r.need = sess[s].need /\ r.recv = sess[s].recv
      BY <1>1, <2>1 DEF SessionOK, Sessions
    <2> HIDE DEF r
    <2>3. SessionOK(r)
      BY <1>1, <1>3, <2>1, <2>2 DEF SessionOK, Alive, Clean, Certified, Fresh, Mechanical, Proven
    <2> QED
      BY <1>1, <1>6, <2>3 DEF Sound, r
  <1> QED
    BY <1>4, <1>5, <1>6

\* InitSecContext asks for this host's service and binds the request to this connection.
LEMMA InitSecContextSound ==
  ASSUME BindInv, NEW s \in Slots, InitSecContext(s)
  PROVE  Sound(s)
  <1>1. /\ SessionOK(sess[s]) /\ keys \in Nat /\ keys' \in Nat /\ UNCHANGED <<cfg, env>>
        /\ sess[s].at = "gss" /\ sess[s].need
    BY DEF BindInv, InitSecContext
  <1>2. /\ Kerberized /\ sess[s].host \in Hosts
        /\ sess[s].cert \in Hosts /\ cfg.Kerberos.spn \in BOOLEAN
    BY <1>1, ConfigAssumption DEF SessionOK, Sessions, Mechanical, Alive, Certified, Verified, BindInv, Configs,
            KerberosAuths, Kerberized
  <1>3. CASE \E e \in KerberosErrors : Fail(s, e)
    BY <1>1, <1>3, FailSound DEF KerberosErrors
  <1> DEFINE q == [spn |-> spn(binder(s)), key |-> keys + 1,
                   cbt |-> tokenForCertificate(sess[s].cert)]
             r == [sess[s] EXCEPT !.at = "sent", !.ekey = keys + 1, !.asked = q]
  <1>4. CASE Now(s, r)
    <2>1. /\ q \in [spn : Hosts \union {"explicit"}, key : Int, cbt : Hosts]
          /\ q.spn = IF cfg.Kerberos.spn THEN "explicit" ELSE sess[s].host
          /\ q.key = keys + 1 /\ q.cbt = sess[s].cert
      BY <1>1, <1>2 DEF spn, binder, binderForHost, Mechanism, Kerberized, tokenForCertificate
    <2> HIDE DEF q
    <2>2. /\ r \in Sessions /\ r.at = "sent" /\ r.need /\ r.ekey = keys + 1 /\ r.asked = q
          /\ r.host = sess[s].host /\ r.cert = sess[s].cert /\ r.src = sess[s].src
          /\ r.err = sess[s].err
      BY <1>1, <2>1 DEF SessionOK, Sessions
    <2> HIDE DEF r
    <2>3. SessionOK(r)
      BY <1>1, <1>2, <2>1, <2>2
      DEF SessionOK, Alive, Clean, Certified, Fresh, Mechanical, Kerberized, Proven, Requested
    <2> QED
      BY <1>1, <1>4, <2>3 DEF Sound
  <1> QED
    BY <1>3, <1>4 DEF InitSecContext

\* A token completes the context only if it is an AP-REP under the key in use.
LEMMA ReadTokenSound ==
  ASSUME BindInv, NEW s \in Slots, ReadToken(s)
  PROVE  Sound(s)
  <1> DEFINE in == sess[s].recv
  <1>1. /\ SessionOK(sess[s]) /\ keys' \in Nat /\ UNCHANGED <<cfg, env>>
        /\ sess[s].at = "gss" /\ sess[s].need /\ in.t # "none" /\ in \in AnyToken
    BY DEF BindInv, ReadToken, SessionOK, Sessions
  <1>2. in.t \in {"junk", "wrap", "krberror", "other", "aprep"}
    BY <1>1 DEF AnyToken
  <1>3. Kerberized /\ Requested(sess[s]) /\ sess[s].asked.key = sess[s].ekey
    BY <1>1 DEF SessionOK, Mechanical, Proven
  <1>4. CASE \E e \in KerberosErrors : Fail(s, e)
    BY <1>1, <1>4, FailSound DEF KerberosErrors
  <1>5. CASE Now(s, [sess[s] EXCEPT !.at = "sent"])
    <2> DEFINE r == [sess[s] EXCEPT !.at = "sent"]
    <2>1. /\ r \in Sessions /\ r.at = "sent" /\ r.need /\ r.ekey = sess[s].ekey
          /\ r.asked = sess[s].asked /\ r.host = sess[s].host /\ r.cert = sess[s].cert
          /\ r.src = sess[s].src /\ r.err = sess[s].err
      BY <1>1 DEF SessionOK, Sessions
    <2> HIDE DEF r
    <2>2. SessionOK(r)
      BY <1>1, <1>3, <2>1
      DEF SessionOK, Alive, Clean, Certified, Fresh, Mechanical, Kerberized, Proven, Requested
    <2> QED
      BY <1>1, <1>5, <2>2 DEF Sound, r
  <1>6. CASE in.t = "aprep" /\ in.key = sess[s].ekey /\
             Now(s, [sess[s] EXCEPT !.at = "sent", !.need = FALSE, !.proven = in.key,
                        !.subkey = IF in.sub THEN -in.key ELSE 0])
    <2> DEFINE k == IF in.sub THEN -in.key ELSE 0
               r == [sess[s] EXCEPT !.at = "sent", !.need = FALSE, !.proven = in.key, !.subkey = k]
    <2>1. in.key \in Int /\ k \in Int
      BY <1>1, <1>6 DEF AnyToken
    <2> HIDE DEF k
    <2>2. /\ r \in Sessions /\ r.at = "sent" /\ ~r.need /\ r.ekey = sess[s].ekey
          /\ r.proven = in.key
          /\ r.asked = sess[s].asked /\ r.host = sess[s].host /\ r.cert = sess[s].cert
          /\ r.src = sess[s].src /\ r.err = sess[s].err
      BY <1>1, <2>1 DEF SessionOK, Sessions
    <2> HIDE DEF r
    <2>3. SessionOK(r)
      BY <1>1, <1>3, <1>6, <2>2
      DEF SessionOK, Alive, Clean, Certified, Fresh, Mechanical, Kerberized, Proven, Requested
    <2> QED
      BY <1>1, <1>6, <2>3 DEF Sound, r, k
  <1> QED
    BY <1>1, <1>2, <1>4, <1>5, <1>6 DEF ReadToken, KerberosErrors

\* The security layers are negotiated only in a complete context.
LEMMA NegotiateSound ==
  ASSUME BindInv, NEW s \in Slots, NegotiateSaslAuth(s)
  PROVE  Sound(s)
  <1>1. /\ SessionOK(sess[s]) /\ keys' \in Nat /\ UNCHANGED <<cfg, env>>
        /\ sess[s].at = "gss" /\ ~sess[s].need
    BY DEF BindInv, NegotiateSaslAuth
  <1>2. CASE Fail(s, "Transport")
    BY <1>1, <1>2, FailSound
  <1>3. CASE Now(s, [sess[s] EXCEPT !.at = "sent"])
    <2> DEFINE r == [sess[s] EXCEPT !.at = "sent"]
    <2>1. /\ r \in Sessions /\ r.at = "sent" /\ ~r.need /\ r.ekey = sess[s].ekey
          /\ r.proven = sess[s].proven
          /\ r.asked = sess[s].asked /\ r.host = sess[s].host /\ r.cert = sess[s].cert
          /\ r.src = sess[s].src /\ r.err = sess[s].err
      BY <1>1 DEF SessionOK, Sessions
    <2> HIDE DEF r
    <2>2. SessionOK(r)
      BY <1>1, <2>1
      DEF SessionOK, Alive, Clean, Certified, Fresh, Mechanical, Kerberized, Proven, Requested
    <2> QED
      BY <1>1, <1>3, <2>2 DEF Sound, r
  <1> QED
    BY <1>2, <1>3 DEF NegotiateSaslAuth

\* An answer ends the bind once the context is complete and goes round the loop before.
LEMMA AnswerSound ==
  ASSUME BindInv, NEW s \in Slots, Answer(s)
  PROVE  Sound(s)
  <1>1. /\ SessionOK(sess[s]) /\ keys \in Nat /\ keys' \in Nat /\ UNCHANGED <<cfg, env>>
        /\ sess[s].at = "sent"
    BY DEF BindInv, Answer
  <1>2. NoToken \in AnyToken
    BY DEF NoToken, AnyToken
  <1>3. CASE \E e \in {"Refused", "Transport"} : Fail(s, e)
    BY <1>1, <1>3, FailSound
  <1>4. CASE ~sess[s].need /\ Now(s, [sess[s] EXCEPT !.at = "bound", !.src = Nil, !.ekey = 0,
                                        !.subkey = 0, !.recv = NoToken])
    <2> DEFINE z == 0
               r == [sess[s] EXCEPT !.at = "bound", !.src = Nil, !.ekey = z, !.subkey = z,
                       !.recv = NoToken]
    <2>1. sess[s] \in Sessions /\ z \in Int
      BY <1>1 DEF SessionOK
    <2> HIDE DEF z
    <2>2. /\ r \in Sessions /\ r.at = "bound" /\ r.need = sess[s].need
          /\ r.ekey = z /\ r.subkey = z /\ r.src = Nil /\ r.proven = sess[s].proven
          /\ r.asked = sess[s].asked /\ r.host = sess[s].host /\ r.cert = sess[s].cert
          /\ r.err = sess[s].err
      BY <1>2, <2>1 DEF Sessions
    <2> HIDE DEF r
    <2>3. SessionOK(r)
      BY <1>1, <1>4, <2>2
      DEF SessionOK, Alive, Clean, Certified, Fresh, Mechanical, Kerberized, Proven, Requested, z
    <2> QED
      BY <1>1, <1>4, <2>3 DEF Sound, r, z
  <1>5. ASSUME NEW tok \in AnyToken,
               \/ sess[s].need
               \/ sess[s].src # Nil /\ tok.t # "none",
               Now(s, [sess[s] EXCEPT !.at = "gss", !.recv = tok])
        PROVE  Sound(s)
    <2> DEFINE r == [sess[s] EXCEPT !.at = "gss", !.recv = tok]
    <2>1. /\ r \in Sessions /\ r.at = "gss" /\ r.need = sess[s].need /\ r.ekey = sess[s].ekey
          /\ r.recv = tok /\ r.proven = sess[s].proven
          /\ r.asked = sess[s].asked /\ r.host = sess[s].host /\ r.cert = sess[s].cert
          /\ r.src = sess[s].src /\ r.err = sess[s].err
      BY <1>1, <1>5 DEF SessionOK, Sessions
    <2> HIDE DEF r
    <2>2. Kerberized
      BY <1>1, <1>5 DEF SessionOK, Mechanical, Picked
    <2>3. SessionOK(r)
      BY <1>1, <1>5, <2>1, <2>2
      DEF SessionOK, Alive, Clean, Certified, Fresh, Mechanical, Kerberized, Proven, Requested
    <2> QED
      BY <1>1, <1>5, <2>3 DEF Sound, r
  <1>6. ASSUME NEW tok \in Tokens PROVE tok \in AnyToken /\ tok.t # "none"
    BY <1>1, <1>6 DEF Tokens, AnyToken
  <1>7. CASE sess[s].need /\ Now(s, [sess[s] EXCEPT !.at = "gss", !.recv = NoToken])
    <2>1. sess[s].need /\ Now(s, [sess[s] EXCEPT !.at = "gss", !.recv = NoToken])
      BY <1>7
    <2> QED
      BY <1>2, <1>5, <2>1
  <1>8. CASE sess[s].src # Nil /\ \E tok \in Tokens : Now(s, [sess[s] EXCEPT !.at = "gss", !.recv = tok])
    BY <1>5, <1>6, <1>8
  <1> QED
    BY <1>3, <1>4, <1>7, <1>8 DEF Answer

\* Any step on the way from connected to bound.
LEMMA BindSound ==
  ASSUME BindInv, NEW s \in Slots, Bind(s)
  PROVE  Sound(s)
  BY StartTLSSound, PlainBindSound, KerberosBindSound, InitSecContextSound, ReadTokenSound,
     NegotiateSound, AnswerSound DEF Bind
-----------------------------------------------------------------------------
(* The client *)

\* Whether a session is in order depends on nothing but the session and what is fixed.
LEMMA OKForGood ==
  ASSUME UNCHANGED <<cfg, env>>, NEW s \in Slots, SessionOK(sess'[s])
  PROVE  SessionOK(sess[s])'
  <1>1. Kerberized' = Kerberized
    BY DEF Kerberized
  <1>2. Alive(sess'[s]) <=> Alive(sess[s])'
    BY DEF Alive
  <1>3. Certified(sess'[s]) <=> Certified(sess[s])'
    BY DEF Certified, Verified
  <1>4. Mechanical(sess'[s]) <=> Mechanical(sess[s])'
    BY <1>1 DEF Mechanical, Picked
  <1>5. Proven(sess'[s]) <=> Proven(sess[s])'
    BY <1>1 DEF Proven, Requested
  <1> QED
    BY <1>2, <1>3, <1>4, <1>5 DEF SessionOK, Clean, Fresh

\* A sound step of one slot keeps every session in order and touches no other slot.
LEMMA SoundInv ==
  ASSUME BindInv, NEW s \in Slots, Sound(s)
  PROVE  BindInv' /\ \A t \in Slots \ {s} : sess'[t] = sess[t]
  <1>1. PICK r : SessionOK(r) /\ sess' = [sess EXCEPT ![s] = r]
    BY DEF Sound, Now
  <1>2. r \in Sessions
    BY <1>1 DEF SessionOK
  <1>3. sess' \in [Slots -> Sessions] /\ sess'[s] = r /\ \A t \in Slots \ {s} : sess'[t] = sess[t]
    BY <1>1, <1>2 DEF BindInv
  <1>4. \A t \in Slots : SessionOK(sess'[t])
    BY <1>1, <1>3 DEF BindInv
  <1>5. \A t \in Slots : SessionOK(sess[t])'
    BY <1>4, OKForGood DEF Sound
  <1> QED
    BY <1>3, <1>5 DEF BindInv, Sound

\* A step that leaves the sessions alone.
LEMMA IdleInv ==
  ASSUME BindInv, UNCHANGED bindVars
  PROVE  BindInv'
  <1>1. UNCHANGED <<cfg, env, sess, keys>>
    BY DEF bindVars
  <1>2. \A t \in Slots : SessionOK(sess'[t])
    BY <1>1 DEF BindInv
  <1>3. \A t \in Slots : SessionOK(sess[t])'
    BY <1>1, <1>2, OKForGood
  <1> QED
    BY <1>1, <1>3 DEF BindInv

\* A session that is closed is closed for good.
LEMMA CloseSound ==
  ASSUME BindInv, NEW s \in Slots, Now(s, Closed), UNCHANGED <<cfg, env, keys>>
  PROVE  BindInv' /\ sess'[s].at = "off" /\ \A t \in Slots \ {s} : sess'[t] = sess[t]
  <1>1. Sound(s)
    BY ClosedOK DEF Sound, BindInv
  <1>2. sess'[s] = Closed
    BY DEF Now, BindInv
  <1> QED
    BY <1>1, <1>2, SoundInv, ClosedType

LEMMA ClientInitInv == ClientInit => ClientInv
  <1> SUFFICES ASSUME ClientInit PROVE ClientInv
    OBVIOUS
  <1>1. cfg \in Configs /\ env \in Environments
    BY ClientAssumption DEF ClientInit
  <1>2. sess \in [Slots -> Sessions] /\ \A s \in Slots : sess[s] = Closed
    BY ClosedType DEF ClientInit
  <1> QED
    BY <1>1, <1>2, ClosedOK, ClosedType, ClientAssumption DEF ClientInit, ClientInv, BindInv, Owned

\* Steps of New, of a borrower and of Close that touch no session, or close the pool's.
LEMMA LifeStep ==
  ASSUME ClientInv,
         \/ New \/ NewRefused \/ Backoff \/ BorrowFails \/ Return \/ Close
         \/ \E a \in {"context", "busy", "refused", "no context", "no entry", "lost"} : ReadRootDSE(a)
  PROVE  ClientInv'
  <1> USE ClientAssumption
  <1>1. BindInv /\ Owned
    BY DEF ClientInv
  <1>2. sess["pool"].err # Nil => sess["pool"].at = "off"
    BY <1>1 DEF BindInv, SessionOK, Alive
  <1>3. CASE UNCHANGED <<cfg, env, keys>> /\ Now("pool", Closed) /\
             \/ life' = "failed" /\ lent' = FALSE /\ life \in {"acquire", "backoff"}
             \/ lent' = FALSE /\ life' = life /\ life \in {"ready", "closed"}
             \/ life = "ready" /\ life' = "closed" /\ lent' = lent
    <2>1. BindInv' /\ sess'["pool"].at = "off" /\ sess'["probe"] = sess["probe"]
      BY <1>1, <1>3, CloseSound
    <2> QED
      BY <1>1, <1>3, <2>1 DEF ClientInv, Owned
  <1>4. CASE UNCHANGED bindVars /\
             \/ New \/ NewRefused \/ BorrowFails
             \/ life = "backoff" /\ life' = "acquire" /\ lent' = TRUE
             \/ life = "ready" /\ life' = life /\ lent' = FALSE
             \/ life = "ready" /\ life' = "closed" /\ lent /\ lent' = lent
             \/ life = "acquire" /\ life' \in {"ready", "backoff"} /\ lent' = FALSE
    <2>1. BindInv' /\ UNCHANGED <<cfg, sess>>
      BY <1>1, <1>4, IdleInv DEF bindVars
    <2> QED
      BY <1>1, <1>2, <1>4, <2>1 DEF ClientInv, Owned, New, NewRefused, BorrowFails
  <1>5. CASE New \/ NewRefused \/ BorrowFails
    BY <1>4, <1>5 DEF New, NewRefused, BorrowFails
  <1>6. CASE Backoff \/ Return \/ Close
    BY <1>3, <1>4, <1>6 DEF Backoff, Return, Close, NewFails, bindVars
  <1>7. ASSUME NEW a \in {"context", "busy", "refused", "no context", "no entry", "lost"},
               ReadRootDSE(a)
        PROVE  ClientInv'
    BY <1>3, <1>4, <1>7 DEF ReadRootDSE, NewFails
  <1> QED
    BY <1>5, <1>6, <1>7

LEMMA BorrowStep == ClientInv /\ Borrow => ClientInv'
  <1> SUFFICES ASSUME ClientInv, Borrow PROVE ClientInv'
    OBVIOUS
  <1> USE ClientAssumption
  <1> DEFINE r == [sess["pool"] EXCEPT !.err = Nil]
  <1>1. SessionOK(sess["pool"]) /\ sess["pool"] \in Sessions
    BY DEF ClientInv, BindInv, SessionOK
  <1>2. /\ r \in Sessions /\ r.at = sess["pool"].at /\ r.need = sess["pool"].need
        /\ r.ekey = sess["pool"].ekey /\ r.subkey = sess["pool"].subkey /\ r.recv = sess["pool"].recv
        /\ r.proven = sess["pool"].proven /\ r.asked = sess["pool"].asked
        /\ r.host = sess["pool"].host /\ r.cert = sess["pool"].cert /\ r.src = sess["pool"].src
        /\ r.err = Nil
    BY <1>1 DEF Sessions
  <1> HIDE DEF r
  <1>3. SessionOK(r)
    BY <1>1, <1>2
    DEF SessionOK, Alive, Clean, Certified, Fresh, Mechanical, Proven, Requested
  <1>4. Sound("pool")
    BY <1>3 DEF Sound, Borrow, ClientInv, BindInv, r
  <1>5. BindInv' /\ sess'["probe"] = sess["probe"]
    BY <1>4, SoundInv DEF ClientInv
  <1> QED
    BY <1>5 DEF ClientInv, Owned, Borrow

\* Dials and binds, of the pool's connection and of a probe's.
LEMMA DialStep ==
  ASSUME ClientInv,
         \/ Acquire \/ (\E h \in Hosts : Probe(h))
         \/ \E s \in Slots : Bind(s) /\ UNCHANGED clientVars
  PROVE  ClientInv'
  <1> USE ClientAssumption
  <1>1. BindInv /\ Owned /\ cfg \in Configs
    BY DEF ClientInv, BindInv
  <1>2. CASE Acquire
    <2>1. Validate(cfg) /\ cfg.server \in Hosts
      BY <1>1, <1>2, OneBlock DEF Acquire, Owned
    <2>2. Sound("pool")
      BY <1>1, <1>2, <2>1, DialSound DEF Acquire
    <2>3. BindInv' /\ sess'["probe"] = sess["probe"]
      BY <1>1, <2>2, SoundInv
    <2> QED
      BY <1>1, <1>2, <2>2, <2>3 DEF ClientInv, Owned, Acquire, clientVars, Sound
  <1>3. ASSUME NEW h \in Hosts, Probe(h) PROVE ClientInv'
    <2>1. Sound("probe")
      BY <1>1, <1>3, DialSound DEF Probe, Owned
    <2>2. BindInv' /\ sess'["pool"] = sess["pool"]
      BY <1>1, <2>1, SoundInv
    <2> QED
      BY <1>1, <1>3, <2>1, <2>2 DEF ClientInv, Owned, Probe, clientVars, Sound
  <1>4. ASSUME NEW s \in Slots, Bind(s), UNCHANGED clientVars PROVE ClientInv'
    <2>1. Sound(s)
      BY <1>1, <1>4, BindSound
    <2>2. BindInv' /\ \A t \in Slots \ {s} : sess'[t] = sess[t]
      BY <1>1, <2>1, SoundInv
    <2>3. sess[s].at # "off"
      BY <1>4 DEF Bind, StartTLS, SimpleBind, NTLMBind, KerberosBind, InitSecContext, ReadToken,
                  NegotiateSaslAuth, Answer
    <2> QED
      BY <1>1, <1>4, <2>1, <2>2, <2>3 DEF ClientInv, Owned, clientVars, Sound
  <1> QED
    BY <1>2, <1>3, <1>4

LEMMA ProbeDoneStep == ClientInv /\ ProbeDone => ClientInv'
  <1> SUFFICES ASSUME ClientInv, ProbeDone PROVE ClientInv'
    OBVIOUS
  <1>1. BindInv' /\ sess'["probe"].at = "off" /\ sess'["pool"] = sess["pool"]
    BY CloseSound, ClientAssumption DEF ClientInv, ProbeDone
  <1> QED
    BY <1>1 DEF ClientInv, Owned, ProbeDone, clientVars

LEMMA ClientStepInv == ClientInv /\ [ClientNext]_vars => ClientInv'
  <1>1. ClientInv /\ UNCHANGED vars => ClientInv'
    BY IdleInv DEF ClientInv, Owned, vars, bindVars, clientVars
  <1> QED
    BY <1>1, LifeStep, BorrowStep, DialStep, ProbeDoneStep DEF ClientNext

LEMMA ClientInvariant == ClientSpec => []ClientInv
  BY ClientInitInv, ClientStepInv, PTL DEF ClientSpec
-----------------------------------------------------------------------------
\* Every bound session talks to the host it dialled: certificate, service ticket,
\* channel binding and the AP-REP are all of that host and of that exchange.
THEOREM ServerIsProven == ClientSpec => []ServerProven
  <1>1. ClientInv => ServerProven
    <2> SUFFICES ASSUME ClientInv, NEW s \in Slots, sess[s].at = "bound"
                 PROVE  /\ sess[s].cert # Nil /\ (~cfg.skip => sess[s].cert = sess[s].host)
                        /\ cfg.Kerberos # Nil => Requested(sess[s])
                                                  /\ sess[s].proven = sess[s].asked.key
      BY DEF ServerProven, Requested
    <2>1. SessionOK(sess[s]) /\ cfg \in Configs
      BY DEF ClientInv, BindInv
    <2>2. sess[s].cert \in Verified(sess[s].host) /\ sess[s].host \in Hosts /\ Validate(cfg)
      BY <2>1 DEF SessionOK, Certified, Alive
    <2>3. cfg.Kerberos # Nil => Kerberized
      BY <2>1, <2>2, OneBlock DEF Kerberized
    <2>4. cfg.Kerberos # Nil => Requested(sess[s]) /\ sess[s].proven = sess[s].asked.key
      BY <2>1, <2>3 DEF SessionOK, Proven
    <2>5. sess[s].cert # Nil /\ (~cfg.skip => sess[s].cert = sess[s].host)
      BY <2>2, ConfigAssumption DEF Verified
    <2> QED
      BY <2>4, <2>5
  <1> QED
    BY <1>1, ClientInvariant, PTL

\* No bind uses a credential or a realm the configuration did not pick (the ambient cache
\* counts as picked by a CCachePath of white space, config.go 158 and ccache.go 23), and no
\* simple bind is sent with an empty password.
THEOREM CredentialIsPicked == ClientSpec => []CredentialPicked
  <1>1. ClientInv => CredentialPicked
    BY DEF ClientInv, BindInv, SessionOK, Mechanical, Picked, CredentialPicked
  <1> QED
    BY <1>1, ClientInvariant, PTL

\* A New that failed and a Client that was closed leave no connection behind, a bind no
\* credential and no key.
THEOREM NothingIsLeftBehind == ClientSpec => []NothingLeftBehind
  <1>1. ClientInv => NothingLeftBehind
    BY ClientAssumption DEF ClientInv, BindInv, SessionOK, Clean, Owned, NothingLeftBehind
  <1> QED
    BY <1>1, ClientInvariant, PTL
-----------------------------------------------------------------------------
(* Look-ups (Lookup): answers are whole, for any directory and any server *)

\* A search of a whole subtree answers with all matches, or shows that there are more
\* than the limit: by an error, or by rows beyond it.
LEMMA RowsShowMore ==
  ASSUME NEW T, NEW found \in Seq(T), NEW limit \in Nat \ {0}, NEW server \in Servers
  PROVE  /\ Len(found) <= limit => Rows(found, limit, server) = Good(found)
         /\ Len(found) > limit =>
               \/ Rows(found, limit, server) = Bad("TooManyResults")
               \/ \E v \in Seq(T) : Rows(found, limit, server) = Good(v) /\ Len(v) >= limit
  <1>1. Len(found) \in Nat
    OBVIOUS
  <1>2. CASE Len(found) <= limit
    BY <1>1, <1>2 DEF Rows
  <1>3. CASE Len(found) > limit
    <2>1. SubSeq(found, 1, limit) \in Seq(T) /\ Len(SubSeq(found, 1, limit)) = limit
      BY <1>1, <1>3
    <2>2. ~(limit = 0 \/ Len(found) <= limit)
      BY <1>1, <1>3
    <2> DEFINE v == SubSeq(found, 1, limit)
    <2>3. Rows(found, limit, server) \in {Good(found), Good(v), Bad("TooManyResults")}
      BY DEF Rows
    <2>4. v \in Seq(T) /\ Len(v) >= limit /\ Len(found) >= limit
      BY <1>1, <1>3, <2>1
    <2> HIDE DEF v
    <2> QED
      BY <1>1, <1>3, <2>3, <2>4
  <1> QED
    BY <1>1, <1>2, <1>3

\* The three kinds of answer are told apart by their kind.
LEMMA AnswerKinds ==
  ASSUME NEW v
  PROVE  /\ Good(v).kind = "nil" /\ Good(v).val = v
         /\ \A k : Bad(k).kind = k /\ Bad(k).val = <<>>
  BY DEF Good, Bad

\* searchEntries: all matches or TooManyResults, and that only when there are more than
\* the limit, for every scope, limit and result and whatever the server makes of a size
\* limit.  A base search is of one object.
THEOREM SearchesAreWhole ==
  ASSUME NEW i, NEW T, i.found \in Seq(T), i.limit \in Nat, i.server \in Servers,
         i.scope = "base" => Len(i.found) <= 1
  PROVE  SearchIsWhole(i)
  <1> DEFINE f == i.found
             n == i.limit
             sv == i.server
             r == Search(scopeOf(i.scope), f, n + 1, sv)
  <1>1. f \in Seq(T) /\ Len(f) \in Nat /\ n \in Nat /\ n + 1 \in Nat \ {0} /\ sv \in Servers
    OBVIOUS
  <1>2. r = Rows(f, n + 1, sv)
    <2>1. scopeOf(i.scope) = "base" => Len(f) <= 1
      BY DEF scopeOf
    <2> QED
      BY <1>1, <2>1, LookupAssumption DEF Search
  <1>3. SearchIsWhole(i) <=>
          (IF r.kind = "nil" /\ Len(r.val) > n THEN Bad("TooManyResults") ELSE r)
            = (IF Len(f) <= n THEN Good(f) ELSE Bad("TooManyResults"))
    BY DEF SearchIsWhole, searchEntries
  <1> HIDE DEF f, n, sv, r
  <1>4. CASE Len(f) <= n
    <2>1. Len(f) <= n + 1 /\ ~(Len(f) > n)
      BY <1>1, <1>4
    <2>2. r = Good(f)
      BY <1>1, <1>2, <2>1, RowsShowMore
    <2> QED
      BY <1>3, <1>4, <2>1, <2>2, AnswerKinds
  <1>5. CASE Len(f) = n + 1
    <2>1. Len(f) <= n + 1 /\ Len(f) > n /\ ~(Len(f) <= n)
      BY <1>1, <1>5
    <2>2. r = Good(f)
      BY <1>1, <1>2, <2>1, RowsShowMore
    <2> QED
      BY <1>3, <2>1, <2>2, AnswerKinds
  <1>6. CASE Len(f) > n + 1
    <2>1. ~(Len(f) <= n)
      BY <1>1, <1>6
    <2>2. CASE r = Bad("TooManyResults")
      BY <1>3, <2>1, <2>2, AnswerKinds
    <2>3. CASE \E v \in Seq(T) : r = Good(v) /\ Len(v) >= n + 1
      <3>1. PICK v \in Seq(T) : r = Good(v) /\ Len(v) >= n + 1
        BY <2>3
      <3>2. Len(v) > n
        BY <1>1, <3>1
      <3> QED
        BY <1>3, <2>1, <3>1, <3>2, AnswerKinds
    <2> QED
      BY <1>1, <1>2, <1>6, <2>2, <2>3, RowsShowMore
  <1> QED
    BY <1>1, <1>4, <1>5, <1>6

\* The rows of a set: as many as it has elements, each of them one.
LEMMA RowsOfSet ==
  ASSUME NEW S, IsFiniteSet(S)
  PROVE  /\ SetToSeq(S) \in Seq(S)
         /\ Len(SetToSeq(S)) = Cardinality(S) /\ Cardinality(S) \in Nat
  <1>1. Cardinality(S) \in Nat /\ ExistsBijection(1..Cardinality(S), S)
    BY FS_CardinalityType
  <1>2. PICK f \in Bijection(1..Cardinality(S), S) : TRUE
    BY <1>1 DEF ExistsBijection
  <1>3. f \in [1..Cardinality(S) -> S] /\ IsInjective(f)
    BY <1>2 DEF Bijection, Injection, IsInjective
  <1>4. SetToSeq(S) \in [1..Cardinality(S) -> S]
    BY <1>3, Zenon DEF SetToSeq
  <1> QED
    BY <1>1, <1>4

\* The search for one object, with a size limit of two, tells none, one and several apart.
LEMMA OneOfSet ==
  ASSUME NEW S, IsFiniteSet(S), NEW server \in Servers
  PROVE  LET r == Search("sub", SetToSeq(S), 2, server)
         IN \/ S = {} /\ r = Good(SetToSeq(S)) /\ Len(SetToSeq(S)) = 0
            \/ \E o : /\ S = {o} /\ r = Good(SetToSeq(S))
                      /\ Len(SetToSeq(S)) = 1 /\ SetToSeq(S)[1] = o
            \/ /\ S # {} /\ \A o : S # {o}
               /\ \/ r = Bad("TooManyResults")
                  \/ \E v \in Seq(S) : r = Good(v) /\ Len(v) >= 2
  <1> DEFINE q == SetToSeq(S)
             r == Search("sub", q, 2, server)
  <1>1. q \in Seq(S) /\ Len(q) = Cardinality(S) /\ Cardinality(S) \in Nat
    BY RowsOfSet
  <1>2. r = Rows(q, 2, server)
    BY DEF Search
  <1>3. /\ Len(q) <= 2 => r = Good(q)
        /\ Len(q) > 2 => \/ r = Bad("TooManyResults")
                         \/ \E v \in Seq(S) : r = Good(v) /\ Len(v) >= 2
    BY <1>1, <1>2, RowsShowMore
  <1>4. (Cardinality(S) = 0 <=> S = {}) /\ (Cardinality(S) = 1 <=> \E x : S = {x})
    BY FS_EmptySet, FS_Singleton
  <1> HIDE DEF q, r
  <1> SUFFICES \/ S = {} /\ r = Good(q) /\ Len(q) = 0
               \/ \E o : S = {o} /\ r = Good(q) /\ Len(q) = 1 /\ q[1] = o
               \/ /\ S # {} /\ \A o : S # {o}
                  /\ \/ r = Bad("TooManyResults")
                     \/ \E v \in Seq(S) : r = Good(v) /\ Len(v) >= 2
    BY DEF q, r
  <1>5. CASE Cardinality(S) = 0
    <2>1. S = {} /\ Len(q) = 0 /\ Len(q) <= 2
      BY <1>1, <1>4, <1>5
    <2> QED
      BY <1>3, <2>1, Zenon
  <1>6. CASE Cardinality(S) = 1
    <2>1. PICK o : S = {o}
      BY <1>4, <1>6, Zenon
    <2>2. Len(q) = 1 /\ Len(q) <= 2 /\ 1 \in 1..Len(q)
      BY <1>1, <1>6
    <2>3. q[1] \in S
      BY <1>1, <2>2, ElementOfSeq
    <2>4. q[1] = o
      BY <2>1, <2>3
    <2> QED
      BY <1>3, <2>1, <2>2, <2>4, Zenon
  <1>7. CASE Cardinality(S) >= 2
    <2>1. Cardinality(S) # 0 /\ Cardinality(S) # 1 /\ Len(q) >= 2
      BY <1>1, <1>7
    <2>2. S # {} /\ \A o : S # {o}
      BY <1>4, <2>1, Zenon
    <2>3. Len(q) > 2 \/ Len(q) <= 2
      BY <1>1
    <2>4. r = Bad("TooManyResults") \/ \E v \in Seq(S) : r = Good(v) /\ Len(v) >= 2
      BY <1>1, <1>3, <2>1, <2>3, Zenon
    <2> QED
      BY <2>2, <2>4, Zenon
  <1>8. Cardinality(S) = 0 \/ Cardinality(S) = 1 \/ Cardinality(S) >= 2
    BY <1>1
  <1> QED
    BY <1>5, <1>6, <1>7, <1>8, Zenon

Hits(objects, id, class) ==
    {o \in objects : o[id.form] = id.arg /\ class \in {"*", o.class}}

\* The answer r stands for hits: the only one, NotFound when there is none, and another
\* error otherwise.
AnswerFor(hits, r) ==
    \/ hits = {} /\ r = Bad("NotFound")
    \/ \E o : hits = {o} /\ r = Good(o)
    \/ /\ hits # {} /\ \A o : hits # {o}
       /\ r = Bad("TooManyResults") \/ r = Bad("Constraint")

LEMMA GetOneAnswers ==
  ASSUME NEW objects, IsFiniteSet(objects), NEW id, NEW class, NEW server \in Servers,
         id.formed
  PROVE  AnswerFor(Hits(objects, id, class), getOne(objects, id, class, server))
  <1> DEFINE hits == Hits(objects, id, class)
             q == SetToSeq(hits)
             s == Search("sub", q, 2, server)
             r == getOne(objects, id, class, server)
  <1>1. IsFiniteSet(hits)
    BY FS_Subset DEF Hits
  <1>2. hits = {o \in objects : /\ o[id.form] = id.arg
                                /\ o.class \in classTerm(class, {p.class : p \in objects})}
    BY DEF classTerm, Hits
  <1>3. r = IF s.kind # "nil" THEN s
            ELSE IF Len(s.val) = 1 THEN Good(s.val[1])
            ELSE Bad(IF Len(s.val) = 0 THEN "NotFound" ELSE "Constraint")
    BY <1>2, Zenon DEF getOne
  <1> HIDE DEF hits, r
  <1>4. \/ hits = {} /\ s = Good(q) /\ Len(q) = 0
        \/ \E o : hits = {o} /\ s = Good(q) /\ Len(q) = 1 /\ q[1] = o
        \/ /\ hits # {} /\ \A o : hits # {o}
           /\ \/ s = Bad("TooManyResults")
              \/ \E v \in Seq(hits) : s = Good(v) /\ Len(v) >= 2
    BY <1>1, OneOfSet, Zenon
  <1> HIDE DEF q, s
  <1> SUFFICES AnswerFor(hits, r)
    BY DEF hits, r
  <1>5. CASE hits = {} /\ s = Good(q) /\ Len(q) = 0
    <2>1. s.kind = "nil" /\ s.val = q /\ Len(q) # 1
      BY <1>5, AnswerKinds
    <2>2. r = Bad("NotFound")
      BY <1>3, <1>5, <2>1
    <2> QED
      BY <1>5, <2>2, Zenon DEF AnswerFor
  <1>6. CASE \E o : hits = {o} /\ s = Good(q) /\ Len(q) = 1 /\ q[1] = o
    <2>1. PICK o : hits = {o} /\ s = Good(q) /\ Len(q) = 1 /\ q[1] = o
      BY <1>6, Zenon
    <2>2. s.kind = "nil" /\ s.val = q
      BY <2>1, AnswerKinds
    <2>3. r = Good(o)
      BY <1>3, <2>1, <2>2, Zenon
    <2> QED
      BY <2>1, <2>3, Zenon DEF AnswerFor
  <1>7. CASE /\ hits # {} /\ \A o : hits # {o}
             /\ \/ s = Bad("TooManyResults")
                \/ \E v \in Seq(hits) : s = Good(v) /\ Len(v) >= 2
    <2>1. CASE s = Bad("TooManyResults")
      <3>1. s.kind # "nil"
        BY <2>1, AnswerKinds
      <3>2. r = Bad("TooManyResults")
        BY <1>3, <2>1, <3>1, Zenon
      <3> QED
        BY <1>7, <3>2, Zenon DEF AnswerFor
    <2>2. CASE \E v \in Seq(hits) : s = Good(v) /\ Len(v) >= 2
      <3>1. PICK v \in Seq(hits) : s = Good(v) /\ Len(v) >= 2
        BY <2>2, Zenon
      <3>2. s.kind = "nil" /\ s.val = v
        BY <3>1, AnswerKinds
      <3>3. Len(v) # 1 /\ Len(v) # 0
        <4>1. Len(v) \in Nat
          BY <3>1, LenProperties
        <4>2. Len(v) >= 2
          BY <3>1, Zenon
        <4>3. \A n \in Nat : n >= 2 => n # 1 /\ n # 0
          OBVIOUS
        <4> QED
          BY <4>1, <4>2, <4>3, Zenon
      <3>4. r = Bad("Constraint")
        BY <1>3, <3>2, <3>3, Zenon
      <3> QED
        BY <1>7, <3>4, Zenon DEF AnswerFor
    <2> QED
      BY <1>7, <2>1, <2>2, Zenon
  <1> QED
    BY <1>4, <1>5, <1>6, <1>7, Zenon

\* getOne and resolveDN: the only object that has the identity, never one of several, and
\* NotFound only when there is none, for every finite directory.
THEOREM LookupsAreExact ==
  ASSUME NEW i, IsFiniteSet(i.objects), i.server \in Servers, i.id.formed \in BOOLEAN
  PROVE  LookupIsExact(i)
  <1> DEFINE who == {o \in i.objects : o[i.id.form] = i.id.arg}
             hits == {o \in who : i.class \in {"*", o.class}}
             all == Hits(i.objects, i.id, i.class)
             any == Hits(i.objects, i.id, "*")
             r == getOne(i.objects, i.id, i.class, i.server)
             s == getOne(i.objects, i.id, "*", i.server)
             d == resolveDN(i.objects, i.id, i.server)
  <1>1. hits = all /\ who = any
    BY DEF Hits
  <1>2. ~i.id.formed => r = Bad("Constraint") /\ s = Bad("Constraint")
    BY DEF getOne
  <1>3. i.id.formed => AnswerFor(all, r)
    BY GetOneAnswers
  <1>4. i.id.formed => AnswerFor(any, s)
    BY GetOneAnswers
  <1>5. d = IF i.id.form = "dn" THEN Good(i.id.arg)
            ELSE IF s.kind = "nil" THEN Good(s.val.dn) ELSE s
    BY Zenon DEF resolveDN
  <1>6. LookupIsExact(i) <=>
          /\ r.kind = "nil" <=> i.id.formed /\ \E o \in hits : hits = {o} /\ r.val = o
          /\ r.kind = "NotFound" <=> i.id.formed /\ hits = {}
          /\ d.kind = "nil" => i.id.form = "dn" \/ \E o \in who : who = {o} /\ d.val = o.dn
    BY Zenon DEF LookupIsExact
  <1> HIDE DEF who, hits, all, any, r, s, d
  <1>7. r.kind = "nil" <=> i.id.formed /\ \E o \in hits : hits = {o} /\ r.val = o
    BY <1>1, <1>2, <1>3, AnswerKinds DEF AnswerFor
  <1>8. r.kind = "NotFound" <=> i.id.formed /\ hits = {}
    BY <1>1, <1>2, <1>3, AnswerKinds DEF AnswerFor
  <1>9. d.kind = "nil" => i.id.form = "dn" \/ \E o \in who : who = {o} /\ d.val = o.dn
    BY <1>1, <1>2, <1>4, <1>5, AnswerKinds DEF AnswerFor
  <1> QED
    BY <1>6, <1>7, <1>8, <1>9, Zenon

\* resolveOne answers with the GUID a reference means, and fails only when it means none.
LEMMA ResolveOneAnswers ==
  ASSUME NEW schema, IsFiniteSet(schema), NEW ref, NEW server \in Servers,
         \A o \in schema : o.kind \in {"attribute", "class", "right"} /\ o.whole \in BOOLEAN,
         ~isGUIDString(ref.name)
  PROVE  LET r == resolveOne(schema, ref, server)
         IN /\ r.kind = "nil" => r.val \in Meanings(schema, ref)
            /\ r.kind # "nil" => Meanings(schema, ref) = {}
  <1> DEFINE named == NamedBy(schema, ref)
             q == SetToSeq(named)
             s == Search("sub", q, 2, server)
             r == resolveOne(schema, ref, server)
             mean == {o.guid : o \in {x \in named : named = {x} /\ x.whole}}
  <1>1. IsFiniteSet(named)
    BY FS_Subset DEF NamedBy
  <1>2. r = IF ref.kind \notin {"attribute", "class", "right"} THEN Bad("Constraint")
            ELSE IF s.kind # "nil" THEN s
            ELSE IF Len(s.val) = 0 THEN Bad("NotFound")
            ELSE IF Len(s.val) > 1 \/ ~s.val[1].whole THEN Bad("Constraint")
            ELSE Good(s.val[1].guid)
    BY Zenon DEF resolveOne, NamedBy
  <1>3. Meanings(schema, ref) = mean
    BY DEF Meanings
  <1>4. \/ named = {} /\ s = Good(q) /\ Len(q) = 0
        \/ \E o : named = {o} /\ s = Good(q) /\ Len(q) = 1 /\ q[1] = o
        \/ /\ named # {} /\ \A o : named # {o}
           /\ \/ s = Bad("TooManyResults")
              \/ \E v \in Seq(named) : s = Good(v) /\ Len(v) >= 2
    BY <1>1, OneOfSet, Zenon
  <1>5. \A o \in named : o.kind = ref.kind /\ o \in schema
    BY DEF NamedBy
  <1> HIDE DEF named, q, s, r
  <1> SUFFICES (r.kind = "nil" => r.val \in mean) /\ (r.kind # "nil" => mean = {})
    BY <1>3 DEF r
  <1>6. (\A o : named # {o}) => mean = {}
    OBVIOUS
  <1>7. CASE ref.kind \notin {"attribute", "class", "right"}
    <2>1. named = {}
      BY <1>5, <1>7
    <2>2. mean = {} /\ r = Bad("Constraint")
      BY <1>2, <1>6, <1>7, <2>1
    <2> QED
      BY <2>2, AnswerKinds
  <1>8. CASE ref.kind \in {"attribute", "class", "right"}
    <2>1. CASE named = {} /\ s = Good(q) /\ Len(q) = 0
      <3>1. s.kind = "nil" /\ s.val = q
        BY <2>1, AnswerKinds
      <3>2. r = Bad("NotFound")
        BY <1>2, <1>8, <2>1, <3>1, Zenon
      <3> QED
        BY <1>6, <2>1, <3>2, AnswerKinds
    <2>2. CASE \E o : named = {o} /\ s = Good(q) /\ Len(q) = 1 /\ q[1] = o
      <3>1. PICK o : named = {o} /\ s = Good(q) /\ Len(q) = 1 /\ q[1] = o
        BY <2>2, Zenon
      <3>2. s.kind = "nil" /\ s.val = q /\ o.whole \in BOOLEAN
        BY <1>5, <3>1, AnswerKinds
      <3>3. Len(q) # 0 /\ ~(Len(q) > 1)
        BY <3>1
      <3>4. CASE o.whole
        <4>1. r = Good(o.guid)
          BY <1>2, <1>8, <3>1, <3>2, <3>3, <3>4, Zenon
        <4>2. o.guid \in mean
          BY <3>1, <3>4
        <4> QED
          BY <4>1, <4>2, AnswerKinds
      <3>5. CASE ~o.whole
        <4>1. r = Bad("Constraint")
          BY <1>2, <1>8, <3>1, <3>2, <3>3, <3>5, Zenon
        <4>2. mean = {}
          BY <3>1, <3>5
        <4> QED
          BY <4>1, <4>2, AnswerKinds
      <3> QED
        BY <3>4, <3>5
    <2>3. CASE /\ named # {} /\ \A o : named # {o}
               /\ \/ s = Bad("TooManyResults")
                  \/ \E v \in Seq(named) : s = Good(v) /\ Len(v) >= 2
      <3>1. mean = {}
        BY <1>6, <2>3
      <3>2. CASE s = Bad("TooManyResults")
        <4>1. s.kind # "nil"
          BY <3>2, AnswerKinds
        <4>2. r = s
          BY <1>2, <1>8, <4>1, Zenon
        <4> QED
          BY <3>1, <4>1, <4>2
      <3>3. CASE \E v \in Seq(named) : s = Good(v) /\ Len(v) >= 2
        <4>1. PICK v \in Seq(named) : s = Good(v) /\ Len(v) >= 2
          BY <3>3, Zenon
        <4>2. s.kind = "nil" /\ s.val = v
          BY <4>1, AnswerKinds
        <4>3. Len(v) > 1 /\ Len(v) # 0
          <5>1. Len(v) \in Nat
            BY <4>1, LenProperties
          <5> QED
            BY <4>1, <5>1
        <4>4. r = Bad("Constraint")
          BY <1>2, <1>8, <4>2, <4>3, Zenon
        <4> QED
          BY <3>1, <4>4, AnswerKinds
      <3> QED
        BY <2>3, <3>2, <3>3, Zenon
    <2> QED
      BY <1>4, <2>1, <2>2, <2>3, Zenon
  <1> QED
    BY <1>7, <1>8

\* A set with 0, and with each number the next, has every natural number: induction, with
\* the property written as a set.
LEMMA CountUp ==
  ASSUME NEW S, 0 \in S, \A n \in Nat : n \in S => n + 1 \in S
  PROVE  Nat \subseteq S
  <1> SUFFICES ASSUME Nat \ S # {} PROVE FALSE
    OBVIOUS
  <1> DEFINE R == OpToRel(<, Nat)
  <1>1. IsWellFoundedOn(R, Nat)
    BY NatLessThanWellFounded, Zenon
  <1>2. R = {r \in Nat \X Nat : r[1] < r[2]}
    BY Zenon DEF OpToRel
  <1> HIDE DEF R
  <1>3. PICK x \in Nat \ S : \A y \in Nat \ S : ~(<<y, x>> \in R)
    BY <1>1, WFMin, Zenon
  <1>4. x # 0 /\ x - 1 \in Nat /\ (x - 1) + 1 = x
    BY <1>3
  <1>5. x - 1 \in Nat \ S
    BY <1>3, <1>4
  <1>6. <<x - 1, x>> \in R
    BY <1>2, <1>4
  <1> QED
    BY <1>3, <1>5, <1>6

\* f is what Resolve's loop has after 0, 1, ..., n references.
LoopOf(f, n, schema, refs, server) ==
    f = [k \in 0..n |-> IF k = 0 THEN Good(<<>>) ELSE AfterRef(schema, f[k - 1], refs[k], server)]

\* The loop computes something,
LEMMA LoopExists ==
  ASSUME NEW schema, NEW refs, NEW server, NEW n \in Nat
  PROVE  \E f : LoopOf(f, n, schema, refs, server)
  <1> DEFINE N == {k \in Nat : \E f : LoopOf(f, k, schema, refs, server)}
  <1>1. 0 \in N
    <2>1. LoopOf([k \in 0..0 |-> Good(<<>>)], 0, schema, refs, server)
      BY DEF LoopOf
    <2> QED
      BY <2>1
  <1>2. ASSUME NEW k \in Nat, k \in N PROVE k + 1 \in N
    <2>1. PICK f : LoopOf(f, k, schema, refs, server)
      BY <1>2
    <2> DEFINE next == AfterRef(schema, f[k], refs[k + 1], server)
               g == [j \in 0..(k + 1) |-> IF j <= k THEN f[j] ELSE next]
               h == [j \in 0..(k + 1) |->
                       IF j = 0 THEN Good(<<>>) ELSE AfterRef(schema, g[j - 1], refs[j], server)]
    <2>2. ASSUME NEW j \in 0..k
          PROVE  f[j] = IF j = 0 THEN Good(<<>>) ELSE AfterRef(schema, f[j - 1], refs[j], server)
      <3>1. f = [m \in 0..k |-> IF m = 0 THEN Good(<<>>)
                                ELSE AfterRef(schema, f[m - 1], refs[m], server)]
        BY <2>1 DEF LoopOf
      <3> QED
        BY <3>1, Zenon
    <2>3. \A j \in 0..(k + 1) : g[j] = h[j]
      <3> SUFFICES ASSUME NEW j \in 0..(k + 1) PROVE g[j] = h[j]
        OBVIOUS
      <3>1. /\ g[j] = IF j <= k THEN f[j] ELSE next
            /\ h[j] = IF j = 0 THEN Good(<<>>) ELSE AfterRef(schema, g[j - 1], refs[j], server)
        OBVIOUS
      <3>2. \A m \in 0..k : g[m] = f[m]
        OBVIOUS
      <3> HIDE DEF g, h
      <3>3. CASE j = 0
        <4>1. 0 \in 0..k /\ j <= k
          BY <3>3
        <4>2. f[0] = Good(<<>>)
          BY <2>2, <4>1
        <4> QED
          BY <3>1, <3>3, <4>1, <4>2
      <3>4. CASE j \in 1..k
        <4>1. j - 1 \in 0..k /\ j \in 0..k /\ j # 0 /\ j <= k
          BY <3>4
        <4> QED
          BY <2>2, <3>1, <3>2, <4>1
      <3>5. CASE j = k + 1
        <4>1. k \in 0..k /\ j # 0 /\ ~(j <= k) /\ j - 1 = k
          BY <3>5
        <4> QED
          BY <3>1, <3>2, <3>5, <4>1
      <3> QED
        BY <3>3, <3>4, <3>5
    <2>4. g = h
      BY <2>3
    <2>5. LoopOf(g, k + 1, schema, refs, server)
      BY <2>4, Zenon DEF LoopOf
    <2> QED
      BY <2>5
  <1> HIDE DEF N
  <1>3. Nat \subseteq N
    BY <1>1, <1>2, CountUp
  <1> QED
    BY <1>3 DEF N

\* and each turn is AfterRef's.
LEMMA LoopSteps ==
  ASSUME NEW schema, NEW refs, NEW server, Len(refs) \in Nat
  PROVE  LET f == Resolving(schema, refs, server)
         IN /\ f[0] = Good(<<>>)
            /\ \A k \in 1..Len(refs) : f[k] = AfterRef(schema, f[k - 1], refs[k], server)
  <1>1. PICK f : LoopOf(f, Len(refs), schema, refs, server)
    BY LoopExists
  <1> DEFINE K == Resolving(schema, refs, server)
  <1>2. K = [k \in 0..Len(refs) |->
               IF k = 0 THEN Good(<<>>) ELSE AfterRef(schema, K[k - 1], refs[k], server)]
    BY <1>1, Zenon DEF Resolving, LoopOf
  <1> HIDE DEF K
  <1>3. K[0] = Good(<<>>)
    <2>1. 0 \in 0..Len(refs)
      OBVIOUS
    <2> QED
      BY <1>2, <2>1
  <1>4. ASSUME NEW k \in 1..Len(refs)
        PROVE  K[k] = AfterRef(schema, K[k - 1], refs[k], server)
    <2>1. k \in 0..Len(refs) /\ k # 0
      OBVIOUS
    <2> QED
      BY <1>2, <2>1
  <1> QED
    BY <1>3, <1>4 DEF K

\* What the loop has answers for the references asked so far.
Answered(schema, a, asked) ==
    /\ a.kind = "nil" => /\ DOMAIN a.val = asked
                         /\ \A ref \in asked : a.val[ref] \in Meanings(schema, ref)
    /\ a.kind # "nil" => \E ref \in asked : Meanings(schema, ref) = {}

LEMMA AfterRefAnswers ==
  ASSUME NEW schema, IsFiniteSet(schema), NEW server \in Servers,
         \A o \in schema : o.kind \in {"attribute", "class", "right"} /\ o.whole \in BOOLEAN,
         NEW a, NEW asked, Answered(schema, a, asked), NEW ref
  PROVE  Answered(schema, AfterRef(schema, a, ref, server), asked \union {ref})
  <1> DEFINE r == IF isGUIDString(ref.name) THEN Good(ref.name)
                                            ELSE resolveOne(schema, ref, server)
             m == [x \in DOMAIN a.val \union {ref} |-> IF x = ref THEN r.val ELSE a.val[x]]
             b == AfterRef(schema, a, ref, server)
  <1>1. /\ r.kind = "nil" => r.val \in Meanings(schema, ref)
        /\ r.kind # "nil" => Meanings(schema, ref) = {}
    <2>1. CASE isGUIDString(ref.name)
      <3>1. r = Good(ref.name) /\ Meanings(schema, ref) = {ref.name}
        BY <2>1 DEF Meanings
      <3> QED
        BY <3>1, AnswerKinds
    <2>2. CASE ~isGUIDString(ref.name)
      BY <2>2, ResolveOneAnswers
    <2> QED
      BY <2>1, <2>2
  <1>2. b = IF a.kind # "nil" \/ ref \in DOMAIN a.val THEN a
            ELSE IF r.kind # "nil" THEN r ELSE Good(m)
    BY Zenon DEF AfterRef
  <1>3. /\ DOMAIN m = DOMAIN a.val \union {ref} /\ m[ref] = r.val
        /\ \A x \in DOMAIN a.val : x # ref => m[x] = a.val[x]
    OBVIOUS
  <1> HIDE DEF r, m, b
  <1> SUFFICES Answered(schema, b, asked \union {ref})
    BY DEF b
  <1>4. CASE a.kind # "nil"
    BY <1>2, <1>4 DEF Answered
  <1>5. CASE a.kind = "nil" /\ ref \in DOMAIN a.val
    <2>1. b = a /\ asked \union {ref} = asked
      BY <1>2, <1>5 DEF Answered
    <2> QED
      BY <2>1
  <1>6. CASE a.kind = "nil" /\ ref \notin DOMAIN a.val /\ r.kind # "nil"
    <2>1. b = r
      BY <1>2, <1>6, Zenon
    <2> QED
      BY <1>1, <1>6, <2>1 DEF Answered
  <1>7. CASE a.kind = "nil" /\ ref \notin DOMAIN a.val /\ r.kind = "nil"
    <2>1. b = Good(m)
      BY <1>2, <1>7, Zenon
    <2>2. b.kind = "nil" /\ b.val = m
      BY <2>1, AnswerKinds
    <2>3. DOMAIN a.val = asked /\ \A x \in asked : a.val[x] \in Meanings(schema, x)
      BY <1>7 DEF Answered
    <2>4. DOMAIN m = asked \union {ref}
      BY <1>3, <2>3
    <2>5. \A x \in asked \union {ref} : m[x] \in Meanings(schema, x)
      BY <1>1, <1>3, <1>7, <2>3
    <2> QED
      BY <2>2, <2>4, <2>5 DEF Answered
  <1> QED
    BY <1>4, <1>5, <1>6, <1>7

\* Schema.Resolve returns every reference with the GUID it means and nothing else, or
\* fails on one that means none, for every finite schema and every list of references.
THEOREM ResolvesAreTotal ==
  ASSUME NEW i, IsFiniteSet(i.schema), i.server \in Servers, NEW R, i.refs \in Seq(R),
         \A o \in i.schema : o.kind \in {"attribute", "class", "right"} /\ o.whole \in BOOLEAN
  PROVE  ResolveIsTotal(i)
  <1> DEFINE refs == i.refs
             f == Resolving(i.schema, refs, i.server)
             upto(k) == {refs[j] : j \in 1..k}
             N == {k \in Nat : k <= Len(refs) => Answered(i.schema, f[k], upto(k))}
  <1>1. Len(refs) \in Nat /\ DOMAIN refs = 1..Len(refs)
    OBVIOUS
  <1>2. /\ f[0] = Good(<<>>)
        /\ \A k \in 1..Len(refs) : f[k] = AfterRef(i.schema, f[k - 1], refs[k], i.server)
    BY <1>1, LoopSteps
  <1> HIDE DEF refs, f
  <1>3. 0 \in N
    <2>1. upto(0) = {}
      OBVIOUS
    <2>2. DOMAIN <<>> = {}
      OBVIOUS
    <2>3. f[0].kind = "nil" /\ f[0].val = <<>>
      BY <1>2, AnswerKinds
    <2>4. Answered(i.schema, f[0], {})
      BY <2>2, <2>3 DEF Answered
    <2> QED
      BY <2>1, <2>4
  <1>4. ASSUME NEW k \in Nat, k \in N PROVE k + 1 \in N
    <2> SUFFICES ASSUME k + 1 <= Len(refs) PROVE Answered(i.schema, f[k + 1], upto(k + 1))
      OBVIOUS
    <2>1. k + 1 \in 1..Len(refs) /\ k <= Len(refs) /\ (k + 1) - 1 = k
      BY <1>1
    <2>2. Answered(i.schema, f[k], upto(k))
      BY <1>4, <2>1
    <2>3. f[k + 1] = AfterRef(i.schema, f[k], refs[k + 1], i.server)
      BY <1>2, <2>1
    <2>4. upto(k + 1) = upto(k) \union {refs[k + 1]}
      <3>1. 1..(k + 1) = (1..k) \union {k + 1}
        OBVIOUS
      <3> QED
        BY <3>1
    <2> HIDE DEF upto
    <2>5. Answered(i.schema, AfterRef(i.schema, f[k], refs[k + 1], i.server),
                   upto(k) \union {refs[k + 1]})
      BY <2>2, AfterRefAnswers
    <2> QED
      BY <2>3, <2>4, <2>5
  <1> HIDE DEF N
  <1>5. Nat \subseteq N
    BY <1>3, <1>4, CountUp
  <1>6. Answered(i.schema, f[Len(refs)], upto(Len(refs)))
    <2>1. Len(refs) \in N /\ Len(refs) <= Len(refs)
      BY <1>1, <1>5
    <2> QED
      BY <2>1, Zenon DEF N
  <1>7. Resolve(i.schema, i.refs, i.server) = f[Len(refs)]
    BY Zenon DEF Resolve, f, refs
  <1>8. {i.refs[j] : j \in DOMAIN i.refs} = upto(Len(refs))
    BY <1>1, Zenon DEF refs
  <1> HIDE DEF upto
  <1> QED
    BY <1>6, <1>7, <1>8, Zenon DEF ResolveIsTotal, Answered
=============================================================================
