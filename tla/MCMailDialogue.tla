---------------------------- MODULE MCMailDialogue ----------------------------
(***************************************************************************)
(* Dialogues with up to two STARTTLS commands, two lines of text that      *)
(* mention the word and one reply to another command.  The wordings are    *)
(* those of common servers (an SMTP greeting that ends in "ready", an IMAP *)
(* greeting with the capabilities, refusals that name TLS or do not, the   *)
(* acceptances of the RFCs), and the ones the detector cannot know: an     *)
(* acceptance of no particular wording, a greeting or a reply that invites *)
(* to begin TLS, a capability list opened by a bare +OK.                   *)
(***************************************************************************)
EXTENDS MailDialogue

MCTags == <<"a1", "a2">>
MCTls == [tls_version |-> "TLSv1.2", cipher_suite |-> {"ECDHE"},
          forward_secrecy |-> TRUE, certificates |-> <<>>]
MCCipherSuiteNames == [code \in {"0xc02f"} |-> {"ECDHE"}]
MCAll == {"SMTP", "IMAP", "POP3"}
MCAllAsks == [SMTP |-> 2, IMAP |-> 1, POP3 |-> 2]
MCSmtp == {"SMTP"}
MCSmtpAsks == [p \in MCSmtp |-> 2]
MCImap == {"IMAP"}
MCImapAsks == [p \in MCImap |-> 2]

MCGreetings == [SMTP |-> {{}, {"READY"}, {"TLS"}},
                IMAP |-> {{}, {"CAPABILITY", "STARTTLS", "TLS"}},
                POP3 |-> {{}, {"BEGIN_TLS", "TLS"}}]
MCAcceptWords == [SMTP |-> {{}, {"READY"}, {"GO_AHEAD"}},
                  IMAP |-> {{}, {"TLS", "NEGOTIAT"}, {"TLS"}},
                  POP3 |-> {{}, {"BEGIN_TLS", "TLS"}}]
MCRefuseWords == {{}, {"TLS"}}
MCCapa == {{}, {"CAPA"}}
MCReplies == [SMTP |-> {{}, {"STARTTLS", "TLS"}},
              IMAP |-> {{"TLS"}},
              POP3 |-> {{}, {"BEGIN_TLS", "TLS"}, {"CAPA"}}]
MCTexts == {"ends", "starts", "second", "inside", "other"}
===============================================================================
