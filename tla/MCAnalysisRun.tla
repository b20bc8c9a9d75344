----------------------------- MODULE MCAnalysisRun -----------------------------
(***************************************************************************)
(* Captures of up to two streams out of seventeen that lead the pipeline   *)
(* down each of its paths: plaintext in a whole and in a cut capture, an   *)
(* offer nobody used, an upgrade with and without an observable handshake, *)
(* implicit TLS with sound, weak and inconsistent parameters, a mail       *)
(* server on an unusual port, and a stream that is no mail. What the       *)
(* command line writes of them is checked with them.                       *)
(***************************************************************************)
EXTENDS CommandLine

Nothing == [offered |-> FALSE, server_accepted |-> "unknown", clienthello |-> FALSE]
Offer == [Nothing EXCEPT !.offered = TRUE]
Upgrade == [offered |-> TRUE, server_accepted |-> "yes", clienthello |-> TRUE]
CutUpgrade == [Upgrade EXCEPT !.clienthello = FALSE]
Refused == [Offer EXCEPT !.server_accepted = "no"]

(* A root and a server it certified, a client certified by another root,   *)
(* and a server that signed its own certificate with a short key and let   *)
(* it expire.                                                              *)
Cert(subject, issuer, algorithm, bits) ==
    [subject |-> subject, issuer |-> issuer, key |-> subject, signer |-> issuer,
     algorithm |-> algorithm, bits |-> bits, expired |-> FALSE]
Root   == Cert("root", "root", "RSA", 4096)
Leaf   == Cert("server", "root", "EC", 256)
Office == Cert("office", "office", "RSA", 2048)
Client == Cert("client", "office", "RSA", 2048)
Own    == [Cert("own", "own", "RSA", 1024) EXCEPT !.expired = TRUE]
Forged == [Root EXCEPT !.signer = "another key"]

MCCipherSuiteNames ==
    [code \in {"0x0005", "0x002f", "0x1301", "0xc02f"} |->
        CASE code = "0x0005" -> {"RC4"}      \* TLS_RSA_WITH_RC4_128_SHA
          [] code = "0x002f" -> {}           \* TLS_RSA_WITH_AES_128_CBC_SHA
          [] code = "0x1301" -> {}           \* TLS_AES_128_GCM_SHA256
          [] code = "0xc02f" -> {"ECDHE"}]   \* TLS_ECDHE_RSA_WITH_AES_128_...

Messages(record, extension, cipher, chains) ==
    [client_hellos |-> 1,
     server_hellos |-> <<[record |-> record, extension |-> extension,
                          cipher |-> cipher]>>,
     certificates |-> chains]
Silent == [client_hellos |-> 0, server_hellos |-> <<>>, certificates |-> <<>>]
Unanswered == [Silent EXCEPT !.client_hellos = 1]

Server(chain) == <<[sender |-> "server", chain |-> chain]>>
Modern == Messages(<<"0x0303">>, <<"0x0304">>, <<"0x1301">>, <<>>)
Usual(chains) == Messages(<<"0x0303", "0x0303">>, <<>>, <<"0xc02f">>, chains)
Awful == Messages(<<"0x0301">>, <<>>, <<"0x0005">>, Server(<<Own>>))
Anonymous == Server(<<Leaf, Root>>) \o <<[sender |-> "client", chain |-> <<>>]>>
Mutual == Server(<<Leaf, Root>>) \o <<[sender |-> "client", chain |-> <<Client, Office>>]>>

Plain(port, banner, d, whole) ==
    [banner |-> banner, port |-> port, implicit |-> FALSE, starttls |-> d,
     messages |-> Silent, complete |-> whole]
Encrypted(d, messages) ==
    [Plain("SMTP", "SMTP", d, TRUE) EXCEPT !.implicit = (d = Nothing),
                                           !.messages = messages]

MCStreams == {Plain("UNKNOWN", "UNKNOWN", Nothing, TRUE),
              Plain("UNKNOWN", "SMTP", Nothing, TRUE),
              Plain("IMAP", "UNKNOWN", Nothing, FALSE),
              Plain("SMTP", "SMTP", Offer, TRUE),
              Plain("SMTP", "SMTP", Refused, FALSE),
              Plain("SMTP", "SMTP", CutUpgrade, TRUE),
              Encrypted(Upgrade, Unanswered),
              Encrypted(Nothing, Unanswered),
              Encrypted(Upgrade, Usual(Anonymous)),
              Encrypted(Nothing, Usual(Server(<<Root, Leaf>>))),
              Encrypted(Nothing, Usual(Server(<<Leaf, Forged>>))),
              Encrypted(Nothing, Usual(Server(<<Leaf, Unparseable>>))),
              Encrypted(Nothing, Usual(Mutual)),
              Encrypted(Nothing, Messages(<<"0x0303">>, <<>>, <<"0x002f">>, <<>>)),
              Encrypted(Nothing, Messages(<<"0x0303">>, <<>>, <<"0x0005">>, <<>>)),
              Encrypted(Nothing, Awful),
              Encrypted(Nothing, Modern)}
MCClasses == {"low", "high"}
===============================================================================
