--------------------------- MODULE FeatureExtraction ---------------------------
(***************************************************************************)
(* What the models see of a session (ml/feature_extraction.py), and the    *)
(* synthetic sessions the risk classifier is trained on, labelled by the   *)
(* rules (scripts/train_risk_model.py).                                    *)
(***************************************************************************)
EXTENDS SessionRules

Flag(b) == IF b THEN 1 ELSE 0

(* Variant of CipherSuiteWeak: of deprecated versions only.                *)
OldCipherSuiteWeak(s) ==
    /\ HasTls(s) /\ IsDeprecatedVersion(s.tls_session.tls_version)
    /\ IsWeakCipherSuite(s.tls_session.cipher_suite)
CipherSuiteWeak(s) == HasTls(s) /\ IsWeakCipherSuite(s.tls_session.cipher_suite)

(* session_to_features, without the protocol and the handshake duration,   *)
(* which no rule reads.                                                    *)
Features(s) ==
    [is_encrypted     |-> Flag(HasTls(s)),
     starttls_offered |-> Flag(s.starttls_offered),
     starttls_used    |-> Flag(s.starttls_used),
     tls_version_deprecated |->
         Flag(HasTls(s) /\ IsDeprecatedVersion(s.tls_session.tls_version)),
     cipher_suite_weak |-> Flag(CipherSuiteWeak(s)),
     forward_secrecy  |-> Flag(HasTls(s) /\ s.tls_session.forward_secrecy),
     num_certificates |-> IF HasTls(s) THEN Len(s.tls_session.certificates) ELSE 0,
     min_cert_key_size |-> IF Certificates(s) = {} THEN -1
                           ELSE Least({c.bits : c \in Certificates(s)}),
     any_cert_self_signed |-> Flag(\E c \in Certificates(s) : IsSelfSigned(c)),
     any_cert_expired |-> Flag(\E c \in Certificates(s) : c.expired)]

-----------------------------------------------------------------------------
(* The training sessions: no capture stands behind them, so their captures *)
(* are complete and their chains never validated.                          *)
Profiles == {"INFO", "MEDIUM", "HIGH", "CRITICAL"}

(* _certificate *)
SyntheticCertificate(bits, expired) ==
    [x509 |-> [subject |-> "mail", issuer |-> "Example Test CA", key |-> "mail",
               signer |-> "Example Test CA", algorithm |-> "RSA", bits |-> bits,
               expired |-> expired],
     chain_valid |-> "unset"]

(* _tls_profile: the session of each profile.                              *)
ProfileTls(p) ==
    CASE p = "CRITICAL" -> NoTls
      [] p = "HIGH"   -> [tls_version |-> "TLSv1.0", cipher_suite |-> {"DES", "3DES"},
                          forward_secrecy |-> FALSE,
                          certificates |-> <<SyntheticCertificate(1024, TRUE)>>]
      [] p = "MEDIUM" -> [tls_version |-> "TLSv1.2", cipher_suite |-> {},
                          forward_secrecy |-> FALSE,
                          certificates |-> <<SyntheticCertificate(2048, FALSE)>>]
      [] p = "INFO"   -> [tls_version |-> "TLSv1.3", cipher_suite |-> {},
                          forward_secrecy |-> TRUE,
                          certificates |-> <<SyntheticCertificate(2048, FALSE)>>]

ProfileSession(p) ==
    [starttls_offered |-> FALSE, starttls_used |-> FALSE, tls_attempted |-> FALSE,
     tls_session |-> ProfileTls(p), capture_complete |-> TRUE]

(* build_training_data: the features and the label of each profile.        *)
TrainingSample(p) ==
    [features |-> Features(ProfileSession(p)),
     label |-> OverallSeverity(Findings(ProfileSession(p)))]

(* The rules give every profile the class it is named for, and no two      *)
(* classes share their features: there is something to be learned.         *)
ASSUME LabelsAsIntended ==
    /\ \A p \in Profiles : TrainingSample(p).label = p
    /\ \A p, q \in Profiles :
           TrainingSample(p).features = TrainingSample(q).features => p = q
===============================================================================
