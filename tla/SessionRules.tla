----------------------------- MODULE SessionRules -----------------------------
(***************************************************************************)
(* How the evidence of one stream becomes an assessed session: the session *)
(* part of pipeline.py, risk_engine/rules.py and risk_engine/scorer.py.    *)
(*                                                                         *)
(* A TLS session is what the handshake parser returns; chain_valid of its  *)
(* certificates is "unset" (None) until the chain has been validated.      *)
(***************************************************************************)
EXTENDS HandshakeParser

(* The note of a STARTTLS stream: the server agreed and no ClientHello was *)
(* seen, or one was and the parser found no ServerHello.                   *)
UpgradeNotes(d, parsed) ==
    CASE d.server_accepted = "yes" /\ ~d.clienthello -> <<"NoClientHello">>
      [] d.server_accepted = "yes" /\ d.clienthello /\ parsed = NoTls -> <<"NoServerHello">>
      [] OTHER -> <<>>

(* Variants of Annotated: only a STARTTLS stream gets a note; the note is  *)
(* added to the one there is.                                              *)
NotAnnotated(s) == s
AnnotatedAgain(s) ==
    IF s.tls_attempted /\ s.tls_session = NoTls
    THEN [s EXCEPT !.analysis_notes = Append(@, "NoServerHello")] ELSE s

(* The note of any other stream of which TLS was expected in vain.         *)
Annotated(s) ==
    IF s.tls_attempted /\ s.tls_session = NoTls /\ s.analysis_notes = <<>>
    THEN [s EXCEPT !.analysis_notes = <<"NoServerHello">>] ELSE s

(* The session build_sessions_from_pcap makes of a stream; d is the result *)
(* of the STARTTLS detector and parsed what the handshake parser returns.  *)
Session(implicit, d, parsed, complete) ==
    LET started == d.server_accepted = "yes" /\ d.clienthello
    IN  Annotated(
            [starttls_offered |-> ~implicit /\ d.offered,
             starttls_used    |-> ~implicit /\ started,
             tls_attempted    |-> implicit \/ d.server_accepted = "yes" \/ d.clienthello,
             tls_session      |-> IF implicit \/ started THEN parsed ELSE NoTls,
             analysis_notes   |-> IF implicit THEN <<>> ELSE UpgradeNotes(d, parsed),
             capture_complete |-> complete])

-----------------------------------------------------------------------------
HasTls(s) == s.tls_session # NoTls

(* The certificates the rules look through.                                *)
Certificates(s) ==
    IF HasTls(s) THEN {s.tls_session.certificates[k].x509 :
                           k \in DOMAIN s.tls_session.certificates}
                 ELSE {}

(* Variants of NoEncryption: in a cut capture too, and not after an offer. *)
NoEncryptionInAnyCapture(s) == ~HasTls(s) /\ ~s.tls_attempted
NoEncryptionUnlessOffered(s) ==
    ~HasTls(s) /\ ~s.tls_attempted /\ s.capture_complete /\ ~s.starttls_offered

(* rule_no_encryption: two findings, one of which is only an observation.  *)
NotConclusive(s) == ~HasTls(s) /\ ~s.tls_attempted /\ ~s.capture_complete
NoEncryption(s)  == ~HasTls(s) /\ ~s.tls_attempted /\ s.capture_complete

(* Variant of OfferUnused: in a cut capture too.                           *)
OfferUnusedInAnyCapture(s) == s.starttls_offered /\ ~s.starttls_used

(* rule_starttls_offered_but_unused *)
OfferUnused(s) == s.starttls_offered /\ ~s.starttls_used /\ s.capture_complete

(* rule_invalid_presented_chain *)
BrokenChain(s) == /\ HasTls(s) /\ s.tls_session.certificates # <<>>
                  /\ \A k \in DOMAIN s.tls_session.certificates :
                         s.tls_session.certificates[k].chain_valid = "broken"

(* ALL_RULES, each with its severity, in the order of the list.            *)
Rules(s) ==
    <<[id |-> "CRYPTO-000", severity |-> "INFO",     holds |-> NotConclusive(s)],
      [id |-> "CRYPTO-001", severity |-> "CRITICAL", holds |-> NoEncryption(s)],
      [id |-> "CRYPTO-002", severity |-> "HIGH",
          holds |-> HasTls(s) /\ IsDeprecatedVersion(s.tls_session.tls_version)],
      [id |-> "CRYPTO-003", severity |-> "HIGH",
          holds |-> HasTls(s) /\ IsWeakCipherSuite(s.tls_session.cipher_suite)],
      [id |-> "CRYPTO-004", severity |-> "MEDIUM",
          holds |-> HasTls(s) /\ ~s.tls_session.forward_secrecy],
      [id |-> "CRYPTO-005", severity |-> "HIGH",
          holds |-> \E c \in Certificates(s) : c.expired],
      [id |-> "CRYPTO-008", severity |-> "HIGH",
          holds |-> \E c \in Certificates(s) : ~IsKeySizeSufficient(c)],
      [id |-> "CRYPTO-006", severity |-> "MEDIUM",
          holds |-> \E c \in Certificates(s) : IsSelfSigned(c)],
      [id |-> "CRYPTO-009", severity |-> "HIGH",     holds |-> BrokenChain(s)],
      [id |-> "CRYPTO-007", severity |-> "HIGH",     holds |-> OfferUnused(s)]>>

(* session.findings as assess_session sets them.                           *)
Findings(s) ==
    LET rules == Rules(s)
        held  == Picked(rules, {k \in DOMAIN rules : rules[k].holds})
    IN  [k \in DOMAIN held |-> [id |-> held[k].id, severity |-> held[k].severity]]

HasFinding(s, id) == \E k \in DOMAIN Findings(s) : Findings(s)[k].id = id

(* _SEVERITY_PENALTY and _SEVERITY_ORDER *)
Penalty == [INFO |-> 0, LOW |-> 5, MEDIUM |-> 15, HIGH |-> 30, CRITICAL |-> 50]
SeverityOrder == <<"CRITICAL", "HIGH", "MEDIUM", "LOW", "INFO">>

Lost(findings) ==
    LET lost[n \in 0..Len(findings)] ==
            IF n = 0 THEN 0 ELSE lost[n - 1] + Penalty[findings[n].severity]
    IN  lost[Len(findings)]

(* Variant of Score: no floor. *)
ScoreWithoutFloor(findings) == 100 - Lost(findings)

(* max(0, score) *)
Score(findings) == IF Lost(findings) > 100 THEN 0 ELSE 100 - Lost(findings)

(* overall_severity: the worst one found, INFO if there is none.           *)
OverallSeverity(findings) ==
    LET present == {r \in DOMAIN SeverityOrder :
                        \E k \in DOMAIN findings :
                            findings[k].severity = SeverityOrder[r]}
    IN  IF present = {} THEN "INFO" ELSE SeverityOrder[Least(present)]
===============================================================================
