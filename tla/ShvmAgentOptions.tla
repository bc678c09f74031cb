-------------------------- MODULE ShvmAgentOptions --------------------------
(***************************************************************************)
(* parse_agent_options of the shadow-VM agent (src/src-shvm-agent/         *)
(* dislreagent.c), which Agent_OnLoad calls on the option string before    *)
(* it connects to the analysis server.  It starts from the defaults and    *)
(* splits the string at the first ':'; the host and port are copied into   *)
(* the fixed arrays host_name[1024] and port_number[6], and a text that    *)
(* does not fit ends the process (check_error).  A C string is the         *)
(* sequence of its characters, NULL the null pointer.                      *)
(***************************************************************************)
EXTENDS Integers, Sequences, SequencesExt

CONSTANT NULL

DEFAULT_HOST == <<"l", "o", "c", "a", "l", "h", "o", "s", "t">>
DEFAULT_PORT == <<"1", "1", "2", "1", "8">>

\* The sizes of the static arrays, the final 0 included.
HostNameSize   == 1024
PortNumberSize == 6

\* A variant of the port check that lets the text fill the whole array.
port_fits_no_nul(port_start) == Len(port_start) <= PortNumberSize

\* fitsP: strlen (port_start) < sizeof (port_number).
port_fits(port_start) == Len(port_start) < PortNumberSize

\* parse_agent_options: the host and port it leaves in host_name and
\* port_number (the default port stays when the check fails), and whether
\* no check_error ended the process (fits).
parse_agent_options(options) ==
    IF options = NULL
    THEN [host_name |-> DEFAULT_HOST, port_number |-> DEFAULT_PORT, fits |-> TRUE]
    ELSE LET port_start == SelectInSeq(options, LAMBDA x : x = ":")
             host == IF port_start = 0 THEN options
                     ELSE SubSeq(options, 1, port_start - 1)
             port == IF port_start = 0 THEN DEFAULT_PORT
                     ELSE SubSeq(options, port_start + 1, Len(options))
         IN [host_name   |-> host,
             port_number |-> IF port_fits(port) THEN port ELSE DEFAULT_PORT,
             fits        |-> /\ port_start # 0 => port_fits(port)
                             /\ Len(host) < HostNameSize]
=============================================================================
