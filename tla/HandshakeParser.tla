---------------------------- MODULE HandshakeParser ----------------------------
(***************************************************************************)
(* From the TLS messages TShark shows of one stream to a TLS session:      *)
(* tls/handshake_parser.py, tls/cipher_suites.py, certificates/extractor.py *)
(* and certificates/validator.py.                                          *)
(*                                                                         *)
(* The messages of a stream are the record of                              *)
(*   client_hellos   how many ClientHello frames there are;                *)
(*   server_hellos   a sequence of [record, extension, cipher], each field *)
(*                   the sequence of the values TShark joins by commas;    *)
(*   certificates    a sequence of [sender, chain], one for each frame     *)
(*                   with a Certificate message, whoever sent it.          *)
(* A certificate is [subject, issuer, key, signer, algorithm, bits,        *)
(* expired]: signer is the key its signature verifies with, under the      *)
(* padding the validator uses.                                             *)
(***************************************************************************)
EXTENDS SequencesExt, Selection

CONSTANTS NoTls,              \* tls_session is None
          Unparseable,        \* bytes that are no X.509 certificate
          CipherSuiteNames    \* per registered code, the patterns in its name

-----------------------------------------------------------------------------
(* _LEGACY_VERSION_NAMES *)
VersionNames ==
    [code \in {"0x0300", "0x0301", "0x0302", "0x0303", "0x0304"} |->
        CASE code = "0x0300" -> "SSLv3"
          [] code = "0x0301" -> "TLSv1.0"
          [] code = "0x0302" -> "TLSv1.1"
          [] code = "0x0303" -> "TLSv1.2"
          [] code = "0x0304" -> "TLSv1.3"]

(* The name of the first value of a field; a field whose first value is    *)
(* not in the table is kept as it is, and matches no name.                 *)
VersionName(field) == IF Head(field) \in DOMAIN VersionNames
                      THEN VersionNames[Head(field)] ELSE "raw field"

(* _resolve_negotiated_version *)
NegotiatedVersion(hello) ==
    IF hello.extension # <<>> THEN VersionName(hello.extension)
    ELSE IF hello.record # <<>> THEN VersionName(hello.record)
    ELSE "unknown"

(* The patterns in the name of the cipher suite; there are none in a code  *)
(* that is not registered or in "unknown".                                 *)
CipherSuite(hello) ==
    IF hello.cipher # <<>> /\ Head(hello.cipher) \in DOMAIN CipherSuiteNames
    THEN CipherSuiteNames[Head(hello.cipher)] ELSE {}

IsDeprecatedVersion(version) == version \in {"SSLv2", "SSLv3", "TLSv1.0", "TLSv1.1"}
IsWeakCipherSuite(suite) ==
    suite \cap {"NULL", "EXPORT", "anon", "RC4", "DES", "3DES", "MD5"} # {}
ForwardSecrecy(version, suite) ==
    version = "TLSv1.3" \/ suite \cap {"ECDHE", "DHE"} # {}

-----------------------------------------------------------------------------
(* extract_der_certificates_from_pcap splits the rows of all Certificate   *)
(* messages at commas only.  No comma stands between two rows: the last    *)
(* certificate of one and the first of the next become one byte string,    *)
(* which is no certificate.  A message without certificates is an empty    *)
(* row, which leaves no trace.                                             *)
Joined(ders, chain) ==
    IF chain = <<>> THEN ders
    ELSE IF ders = <<>> THEN chain
    ELSE Front(ders) \o <<Unparseable>> \o Tail(chain)

ExtractDer(messages) ==
    LET ders[n \in 0..Len(messages)] ==
            IF n = 0 THEN <<>> ELSE Joined(ders[n - 1], messages[n].chain)
    IN  ders[Len(messages)]

Parseable(ders) == Picked(ders, {c \in DOMAIN ders : ders[c] # Unparseable})

(* parse_certificate for each; what it raises for is left out.             *)
ParseCertificates(ders) ==
    LET parsed == Parseable(ders)
    IN  [k \in DOMAIN parsed |-> [x509 |-> parsed[k], chain_valid |-> "unset"]]

IsSelfSigned(c) == c.subject = c.issuer

IsKeySizeSufficient(c) ==
    CASE c.algorithm \in {"RSA", "DSA"} -> c.bits >= 2048
      [] c.algorithm = "EC" -> c.bits >= 224
      [] OTHER -> TRUE

VerifySignature(child, issuer) ==
    issuer.algorithm \in {"RSA", "EC", "DSA"} /\ child.signer = issuer.key

(* validate_chain *)
ValidateChain(chain) ==
    /\ chain # <<>>
    /\ \A k \in 1..(Len(chain) - 1) :
           /\ chain[k].issuer = chain[k + 1].subject
           /\ VerifySignature(chain[k], chain[k + 1])
    /\ LET root == Last(chain)
       IN  root.subject = root.issuer => VerifySignature(root, root)

-----------------------------------------------------------------------------
(* TLSHandshakeParser.parse: the first hello of each side, and whatever    *)
(* certificates the stream shows, unless they should have been encrypted.  *)
Parse(messages) ==
    IF messages.client_hellos = 0 \/ messages.server_hellos = <<>> THEN NoTls
    ELSE LET hello   == messages.server_hellos[1]
             version == NegotiatedVersion(hello)
             suite   == CipherSuite(hello)
         IN  [tls_version     |-> version,
              cipher_suite    |-> suite,
              forward_secrecy |-> ForwardSecrecy(version, suite),
              certificates    |->
                  IF version = "TLSv1.3" THEN <<>>
                  ELSE ParseCertificates(ExtractDer(messages.certificates))]
===============================================================================
