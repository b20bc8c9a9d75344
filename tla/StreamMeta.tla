------------------------------ MODULE StreamMeta ------------------------------
(***************************************************************************)
(* Which end of a TCP stream is taken for the mail client and which for    *)
(* the mail server (ingestion/stream_reassembly.py).                       *)
(*                                                                         *)
(* An end is the address of a peer, by the part it played when the         *)
(* connection was opened, with its port.                                   *)
(***************************************************************************)
CONSTANT MailPorts   \* _MAIL_SERVER_PORTS

Roles == {"opener", "acceptor"}

Other(role) == CHOOSE r \in Roles : r # role

IsMailEnd(e) == e.port \in MailPorts

(* Variant of Orient: the source is always the client.                     *)
OrientBySource(src, dst) == [client |-> src, server |-> dst]

(* Orientation of a stream from the first usable packet row: a lone mail   *)
(* port is the server; otherwise the source of the row is the client.      *)
Orient(src, dst) ==
    IF IsMailEnd(src) /\ ~IsMailEnd(dst)
    THEN [client |-> dst, server |-> src]
    ELSE [client |-> src, server |-> dst]
===============================================================================
