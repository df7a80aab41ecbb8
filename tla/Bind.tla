-------------------------------- MODULE Bind --------------------------------
(***************************************************************************)
(* One LDAP session from dial to bind: Dial (dial.go), the three Binders   *)
(* (bind.go, bind_ntlm.go, bind_krb.go) and the GSSAPI initiator           *)
(* (gssclient.go), with a server and a KDC that may refuse, break off, or  *)
(* answer with any token.                                                  *)
(*                                                                         *)
(*   off    no connection; err says how the last attempt ended             *)
(*   plain  connected in the clear, StartTLS is next                       *)
(*   tls    protected, not bound                                           *)
(*   gss    inside go-ldap's GSSAPI loop, about to make a token            *)
(*   sent   a bind request is on its way                                   *)
(*   bound  Bind returned nil                                              *)
(*                                                                         *)
(* A session key is the number of its ticket, the subkey an acceptor       *)
(* derives from it the negative number; 0 is no key.  A certificate is     *)
(* named by the host it was issued to, and so is its channel-binding       *)
(* token.                                                                  *)
(***************************************************************************)
EXTENDS Config

CONSTANTS Slots,      \* sessions that may exist at one time
          MaxTickets  \* bound on the service tickets issued

ASSUME BindAssumption == MaxTickets \in Nat

VARIABLES cfg, env,  \* the Config and the process environment, fixed
          sess,      \* sess[s]: the session of slot s
          keys       \* service tickets issued so far

bindVars == <<cfg, env, sess, keys>>

NoToken == [t |-> "none"]

\* Closed: nothing of a session is left.
Closed == [at |-> "off", host |-> Nil, cert |-> Nil, src |-> Nil, ekey |-> 0, subkey |-> 0,
           need |-> TRUE, recv |-> NoToken, asked |-> Nil, proven |-> 0, err |-> Nil]

\* What a server may send inside a bind response: something unreadable, a KRB-ERROR,
\* another Kerberos token, an AP-REP (with a subkey or without), a wrap token under
\* some key that says whether it is the subkey, and is well formed with four bytes or not.
Tokens == [t : {"junk", "krberror", "other"}]
          \union [t : {"aprep"}, key : 1..keys, sub : BOOLEAN]
          \union [t : {"wrap"}, key : (-keys..keys) \ {0}, sub : BOOLEAN, fits : BOOLEAN]

\* The session of s becomes r.
Now(s, r) == sess' = [sess EXCEPT ![s] = r]

\* A failed dial or bind: the deferred calls drop the keys and the credential, and
\* whoever dialled closes the connection.
Fail(s, e) == Now(s, [Closed EXCEPT !.err = e])
-----------------------------------------------------------------------------
\* The certificates a handshake with h accepts.
Verified(h) == IF cfg.skip THEN Hosts ELSE {h}

Handshake(s, h) == \E c \in Verified(h) : Now(s, [Closed EXCEPT !.at = "tls", !.host = h, !.cert = c])

Dial(s, h) ==
    /\ sess[s].at = "off"
    /\ \/ Fail(s, "Transport")
       \/ cfg.tls = "starttls" /\ Now(s, [Closed EXCEPT !.at = "plain", !.host = h])
       \/ cfg.tls = "ldaps" /\ Handshake(s, h)
    /\ UNCHANGED <<cfg, env, keys>>

StartTLS(s) ==
    /\ sess[s].at = "plain"
    /\ Handshake(s, sess[s].host) \/ Fail(s, "Transport")
    /\ UNCHANGED <<cfg, env, keys>>

binder(s) == binderForHost(cfg, sess[s].host)

\* SimpleBinder refuses an empty password before anything is sent.
SimpleBind(s) ==
    /\ sess[s].at = "tls" /\ binder(s).mech = "Simple"
    /\ IF cfg.Simple.password THEN Now(s, [sess[s] EXCEPT !.at = "sent", !.need = FALSE])
                              ELSE Fail(s, "Transport")
    /\ UNCHANGED <<cfg, env, keys>>

NTLMBind(s) ==
    /\ sess[s].at = "tls" /\ binder(s).mech = "NTLM"
    /\ Now(s, [sess[s] EXCEPT !.at = "sent", !.need = FALSE])
    /\ UNCHANGED <<cfg, env, keys>>

\* KerberosBinder: no certificate, no bind; a fresh ticket source for every bind.
KerberosBind(s) ==
    /\ sess[s].at = "tls" /\ binder(s).mech = "Kerberos"
    /\ \E src \in newTicketSource(binder(s), env) :
         IF sess[s].cert = Nil \/ src = Nil THEN Fail(s, "Transport")
         ELSE Now(s, [sess[s] EXCEPT !.at = "gss", !.src = src])
    /\ UNCHANGED <<cfg, env, keys>>
-----------------------------------------------------------------------------
tokenForCertificate(cert) == cert

\* The errors of the KDC or the acceptor: annotateTicketError marks a rejected credential.
KerberosErrors == {"Transport", "Denied"}

\* InitSecContext without input: a service ticket and the AP-REQ, whose authenticator
\* carries the token of this connection's certificate.
InitSecContext(s) ==
    /\ sess[s].at = "gss" /\ sess[s].need /\ sess[s].recv.t = "none"
    /\ \/ /\ \E e \in KerberosErrors : Fail(s, e)
          /\ UNCHANGED keys
       \/ /\ keys < MaxTickets
          /\ keys' = keys + 1
          /\ Now(s, [sess[s] EXCEPT !.at = "sent", !.ekey = keys + 1,
                       !.asked = [spn |-> spn(binder(s)), key |-> keys + 1,
                                  cbt |-> tokenForCertificate(sess[s].cert)]])
    /\ UNCHANGED <<cfg, env>>

\* InitSecContext with the acceptor's token.  Only an AP-REP that decrypts under the
\* ticket's session key completes the context; any other Kerberos token leaves it open.
ReadToken(s) ==
    /\ sess[s].at = "gss" /\ sess[s].need /\ sess[s].recv.t # "none"
    /\ LET in == sess[s].recv
       IN CASE in.t \in {"junk", "wrap"} -> Fail(s, "Transport")
            [] in.t = "krberror" -> \E e \in KerberosErrors : Fail(s, e)
            [] in.t = "other" -> Now(s, [sess[s] EXCEPT !.at = "sent"])
            [] in.t = "aprep" ->
                 IF in.key # sess[s].ekey THEN Fail(s, "Transport")
                 ELSE Now(s, [sess[s] EXCEPT !.at = "sent", !.need = FALSE, !.proven = in.key,
                                !.subkey = IF in.sub THEN -in.key ELSE 0])
    /\ UNCHANGED <<cfg, env, keys>>

\* NegotiateSaslAuth: the acceptor's wrap token, under the key its flag names, with
\* exactly four bytes; the answer chooses no security layer.
NegotiateSaslAuth(s) ==
    /\ sess[s].at = "gss" /\ ~sess[s].need
    /\ LET in == sess[s].recv
       IN IF /\ in.t = "wrap"
             /\ in.fits
             /\ in.key = IF in.sub THEN sess[s].subkey ELSE sess[s].ekey
          THEN Now(s, [sess[s] EXCEPT !.at = "sent"])
          ELSE Fail(s, "Transport")
    /\ UNCHANGED <<cfg, env, keys>>

\* go-ldap's side of the exchange: the response is an error, a success without a token
\* (the loop ends once the context is complete and starts over before), or a token.
Answer(s) ==
    /\ sess[s].at = "sent"
    /\ \/ \E e \in {"Refused", "Transport"} : Fail(s, e)
       \/ /\ ~sess[s].need
          /\ Now(s, [sess[s] EXCEPT !.at = "bound", !.src = Nil, !.ekey = 0, !.subkey = 0,
                       !.recv = NoToken])
       \/ sess[s].need /\ Now(s, [sess[s] EXCEPT !.at = "gss", !.recv = NoToken])
       \/ /\ sess[s].src # Nil
          /\ \E tok \in Tokens : Now(s, [sess[s] EXCEPT !.at = "gss", !.recv = tok])
    /\ UNCHANGED <<cfg, env, keys>>

\* A session on its way from connected to bound.
Bind(s) ==
    \/ StartTLS(s) \/ SimpleBind(s) \/ NTLMBind(s) \/ KerberosBind(s)
    \/ InitSecContext(s) \/ ReadToken(s) \/ NegotiateSaslAuth(s) \/ Answer(s)
-----------------------------------------------------------------------------
HdrLen == 16
Uint16 == 65536

\* Mutant of payloadStart: the offset is computed in the width of the field.
payloadStartNarrow(ec) == (HdrLen + ec) % Uint16

payloadStart(ec) == HdrLen + ec

\* unmarshalWrapToken on len bytes whose header is good and whose EC field is ec: where
\* checksum and payload begin and the input ends, or Nil for an error.
unmarshalWrapToken(len, ec) ==
    IF len < HdrLen \/ ec > len - HdrLen THEN Nil
    ELSE [checksum |-> HdrLen, payload |-> payloadStart(ec), end |-> len]
-----------------------------------------------------------------------------
\* A bound session talks to the controller it dialled: the certificate it negotiated was
\* verified for that host, and under Kerberos the last AP-REQ named that host's service
\* (or the configured one), carried the token of this very connection, and was answered
\* by an AP-REP under that request's key -- whatever tokens the server sent and however
\* often the loop started over.
ServerProven ==
    \A s \in Slots : LET x == sess[s] IN
        x.at = "bound" =>
          /\ x.cert # Nil /\ (~cfg.skip => x.cert = x.host)
          /\ cfg.Kerberos # Nil =>
               /\ x.asked.spn = IF cfg.Kerberos.spn THEN "explicit" ELSE x.host
               /\ x.asked.cbt = x.cert
               /\ x.proven = x.asked.key

\* Nobody authenticates as an identity nobody picked: the credential in use is the one
\* source the configuration names, the ambient cache only when it names none or a
\* CCachePath of white space (which Validate counts and ResolveCCachePath trims away,
\* config.go 158, ccache.go 23), in the configured realm or the pinned server's when it
\* has one, for every host dialled; and no simple bind is sent with an empty password.
CredentialPicked ==
    \A s \in Slots : LET x == sess[s]
                         k == cfg.Kerberos IN
        /\ x.src # Nil =>
             /\ IF Sources(k) = {} \/ (Sources(k) = {"ccache"} /\ k.ccache = "blank")
                THEN x.src.from = "ambient" /\ env.ccname = "file"
                ELSE Sources(k) = {x.src.from}
             /\ x.src.from \in {"keytab", "password"} =>
                  \/ x.src.realm = k.realm
                  \/ k.realm = "" /\ RealmOf[cfg.server] \in {x.src.realm, ""}
        /\ x.at \in {"sent", "bound"} /\ cfg.Simple # Nil => cfg.Simple.password

\* What unmarshalWrapToken accepts it can slice: EC bytes of checksum, the rest payload.
WrapTokenInRange(len, ec) ==
    LET r == unmarshalWrapToken(len, ec)
    IN r # Nil => /\ r.checksum <= r.payload /\ r.payload <= r.end
                  /\ r.payload - r.checksum = ec
=============================================================================
