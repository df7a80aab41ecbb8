------------------------------ MODULE Classify ------------------------------
(***************************************************************************)
(* internal/ldaperr/classify.go: from an LDAP failure to an adcore Kind.   *)
(*                                                                         *)
(* An error is a record: `type' says what errors.Is and errors.As find in  *)
(* its chain.  A "raw" error is a conn.RawError: `code' is its LDAP result *)
(* code and `win32' the code ExtractWin32Code reads from its diagnostic    *)
(* message, or NoCode when the message does not start with one.            *)
(***************************************************************************)
EXTENDS Integers

CONSTANT ClassifyCode  \* adcore.ClassifyCode: a partial function, Win32 code -> Kind

NoCode == -1

Kinds == {"Unknown", "TooManyResults", "Denied", "Referral", "Constraint",
          "InvalidAttribute", "NotFound", "Transient", "AlreadyExists",
          "Transport", "Replication"}

ASSUME ClassifyCodeAssumption ==
    /\ NoCode \notin DOMAIN ClassifyCode
    /\ \A c \in DOMAIN ClassifyCode : ClassifyCode[c] \in Kinds

NilError == [type |-> "nil", win32 |-> NoCode, code |-> 0]
CtxError == [type |-> "ctx", win32 |-> NoCode, code |-> 0]
PlainError == [type |-> "plain", win32 |-> NoCode, code |-> 0]
CredentialRejected == [type |-> "credential", win32 |-> NoCode, code |-> 0]
RawError(win32, code) == [type |-> "raw", win32 |-> win32, code |-> code]

\* The fallback table, keyed by LDAP result code.
byResultCode ==
    [c \in {1, 4, 8, 10, 16, 17, 19, 20, 21, 32, 34, 49, 50, 51, 52, 53,
            64, 65, 66, 67, 68} |->
        CASE c = 1 -> "Unknown"
          [] c = 4 -> "TooManyResults"
          [] c = 10 -> "Referral"
          [] c = 32 -> "NotFound"
          [] c = 68 -> "AlreadyExists"
          [] c \in {8, 49, 50} -> "Denied"
          [] c \in {17, 21} -> "InvalidAttribute"
          [] c \in {51, 52} -> "Transient"
          [] OTHER -> "Constraint"]

\* The Kind of an error; "nil" for no error.  A context error, and an error the
\* server did not produce, is Transport.  The Win32 code wins over the result
\* code, and a condition in neither table is Unknown.
KindOf(e) ==
    CASE e.type = "nil" -> "nil"
      [] e.type \in {"ctx", "plain", "credential"} -> "Transport"
      [] e.type = "raw" /\ e.win32 \in DOMAIN ClassifyCode -> ClassifyCode[e.win32]
      [] e.type = "raw" /\ e.win32 \notin DOMAIN ClassifyCode
                        /\ e.code \in DOMAIN byResultCode -> byResultCode[e.code]
      [] OTHER -> "Unknown"

\* Mutant of Retryable: a lost connection is retried as well.
RetryableTransport(k) == k \in {"Transient", "Transport"}

\* adcore.Kind.Retryable.
Retryable(k) == k = "Transient"
=============================================================================
