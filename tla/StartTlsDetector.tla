--------------------------- MODULE StartTlsDetector ---------------------------
(***************************************************************************)
(* tls/starttls_detector.py: what detect_starttls concludes from the two   *)
(* reassembled byte streams of a mail session.                             *)
(*                                                                         *)
(* A stream is a sequence of lines, and a line is what the detector can    *)
(* tell of it.  A server line has                                          *)
(*   head   its first token: an SMTP reply code ("220", "250", or          *)
(*          "refusal" for one of the listed 4xx/5xx codes), an IMAP tag or *)
(*          "*", a POP3 "+OK", "." or "STLS", or "other";                  *)
(*   status the token after an IMAP tag, else "none";                      *)
(*   words  which of the looked-for words occur in it.                     *)
(* A client line has                                                       *)
(*   kind   "command" (the STARTTLS/STLS command), "ends" or "starts"      *)
(*          (other text with the word at its end or its start), "second"   *)
(*          (the second of three words or more), "inside" (the word        *)
(*          somewhere else), "hello" or "cut_hello" (a ClientHello record, *)
(*          whole or not), or "other";                                     *)
(*   tag    its first token if the word is its second one, else NoTag.     *)
(***************************************************************************)
EXTENDS Selection

CONSTANT NoTag

Protocols == {"SMTP", "IMAP", "POP3"}

(* Words a line with any of which reads as an SMTP or IMAP acceptance.     *)
SmtpAcceptance == {"STARTTLS", "READY", "GO_AHEAD", "TLS"}
ImapAcceptance == {"STARTTLS", "TLS", "NEGOTIAT"}

AnyLine(lines, Test(_)) == \E k \in DOMAIN lines : Test(lines[k])

Says(line, words) == line.words \cap words # {}

-----------------------------------------------------------------------------
(* _smtp_capability_seen *)
SmtpCapabilitySeen(server) ==
    AnyLine(server, LAMBDA l : l.head = "250" /\ Says(l, {"STARTTLS"}))

(* _smtp_accepts: the last line that decides wins, wherever it stands: the *)
(* offset of the command is not used.                                      *)
SmtpDecides(l) == \/ l.head = "220" /\ Says(l, SmtpAcceptance)
                  \/ l.head = "refusal" /\ Says(l, {"TLS", "STARTTLS"})

(* Variant of SmtpAccepts: one acceptance is enough.                       *)
SmtpAcceptsAnywhere(server) ==
    AnyLine(server, LAMBDA l : SmtpDecides(l) /\ l.head = "220")

(* Variant of SmtpAccepts: the first line that decides wins.               *)
SmtpAcceptsFirst(server) ==
    \E k \in DOMAIN server :
        /\ SmtpDecides(server[k]) /\ server[k].head = "220"
        /\ \A m \in 1..(k - 1) : ~SmtpDecides(server[m])

SmtpAccepts(server) ==
    \E k \in DOMAIN server :
        /\ SmtpDecides(server[k]) /\ server[k].head = "220"
        /\ \A m \in (k + 1)..Len(server) : ~SmtpDecides(server[m])

(* _imap_capability_seen *)
ImapCapabilitySeen(server) ==
    AnyLine(server, LAMBDA l : l.head = "*" /\ {"CAPABILITY", "STARTTLS"} \subseteq l.words)

(* _imap_command_tag: the first line with the word in second place.        *)
ImapCommandTag(client) ==
    LET tagged == {k \in DOMAIN client : client[k].tag # NoTag}
    IN  IF tagged = {} THEN NoTag ELSE client[Least(tagged)].tag

(* Variant of ImapAccepts: the status is not looked at.                    *)
ImapAcceptsAnyStatus(server, tag) ==
    AnyLine(server, LAMBDA l : l.head = tag /\ Says(l, ImapAcceptance))

(* _imap_accepts: the first reply with the tag decides.                    *)
ImapAccepts(server, tag) ==
    \E k \in DOMAIN server :
        /\ server[k].head = tag
        /\ \A m \in 1..(k - 1) : server[m].head # tag
        /\ server[k].status = "OK"
        /\ Says(server[k], ImapAcceptance)

(* _pop3_capability_seen: an STLS line inside a list opened by a "+OK"     *)
(* line with CAPA and closed by ".".                                       *)
OpensCapa(l) == l.head = "+OK" /\ Says(l, {"CAPA"})
Pop3CapabilitySeen(server) ==
    \E k, m \in DOMAIN server :
        /\ k < m /\ OpensCapa(server[k]) /\ server[m].head = "STLS"
        /\ \A n \in (k + 1)..(m - 1) : server[n].head # "."

(* Variant of Pop3Accepts: any positive line will do.                      *)
Pop3AcceptsAnyOk(server) == AnyLine(server, LAMBDA l : l.head = "+OK")

(* _pop3_accepts *)
Pop3Accepts(server) ==
    AnyLine(server, LAMBDA l : l.head = "+OK" /\ Says(l, {"BEGIN_TLS"}))

-----------------------------------------------------------------------------
CapabilitySeen(protocol, server) ==
    CASE protocol = "SMTP" -> SmtpCapabilitySeen(server)
      [] protocol = "IMAP" -> ImapCapabilitySeen(server)
      [] protocol = "POP3" -> Pop3CapabilitySeen(server)

(* client.find(marker) *)
Mentions(l) == l.kind \in {"command", "ends", "starts", "second", "inside"}

(* command_seen: in IMAP the word may also stand second.                   *)
LooksLikeCommand(protocol, l) == \/ l.kind \in {"command", "ends", "starts"}
                                 \/ protocol = "IMAP" /\ l.tag # NoTag
CommandSeen(protocol, client) == \E k \in DOMAIN client : LooksLikeCommand(protocol, client[k])

(* Variant of HelloAfterMention: a part of a ClientHello will do.          *)
HelloOfAnySize(client) ==
    \E k, m \in DOMAIN client :
        k < m /\ Mentions(client[k]) /\ client[m].kind \in {"hello", "cut_hello"}

(* _clienthello_offset: a whole ClientHello after the first mention.       *)
HelloAfterMention(client) ==
    \E k, m \in DOMAIN client :
        k < m /\ Mentions(client[k]) /\ client[m].kind = "hello"

(* Each protocol has its own idea of a positive answer.                    *)
ServerAgrees(protocol, client, server) ==
    CASE protocol = "SMTP" -> SmtpAccepts(server)
      [] protocol = "IMAP" -> LET tag == ImapCommandTag(client)
                              IN  tag # NoTag /\ ImapAccepts(server, tag)
      [] protocol = "POP3" -> Pop3Accepts(server)

(* Variant of Accepted: an upgrade must have been advertised.              *)
AcceptedIfOffered(protocol, client, server) ==
    /\ CapabilitySeen(protocol, server)
    /\ CommandSeen(protocol, client)
    /\ ServerAgrees(protocol, client, server)

Accepted(protocol, client, server) ==
    /\ CommandSeen(protocol, client)
    /\ ServerAgrees(protocol, client, server)

(* server_accepted is None, False or True in the code.                     *)
ServerAccepted(mentioned, accepted) ==
    IF ~mentioned THEN "unknown" ELSE IF accepted THEN "yes" ELSE "no"

(* StartTLSResult, without the offset nothing uses.                        *)
DetectStartTls(protocol, client, server) ==
    LET mentioned == AnyLine(client, Mentions)
        accepted  == mentioned /\ Accepted(protocol, client, server)
    IN  [offered         |-> CapabilitySeen(protocol, server),
         negotiated      |-> accepted,
         server_accepted |-> ServerAccepted(mentioned, accepted),
         clienthello     |-> accepted /\ HelloAfterMention(client)]

(* StartTLSResult.tls_started *)
TlsStarted(result) == result.server_accepted = "yes" /\ result.clienthello
===============================================================================
