------------------------------ MODULE MCRelay ------------------------------
(***************************************************************************)
(* All services, with two units of data each way, three datagrams and users*)
(* that send up to three messages.                                         *)
(***************************************************************************)
EXTENDS Relay

AllServices == {"socks4", "connect", "login", "associate", "bind", "smtp", "smtpfree",
                "pop3", "telnet", "mms", "rtsp", "redirect"}
=============================================================================
