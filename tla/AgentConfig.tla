---------------------------- MODULE AgentConfig ----------------------------
(***************************************************************************)
(* How the DiSL instrumentation agent (src/src-disl-agent) turns what the  *)
(* JVM hands to Agent_OnLoad into its configuration and its code flags:    *)
(* the option string (__configure_from_options), the system properties     *)
(* (__configure_from_properties with the jvmtiutil.c getters and           *)
(* find_value_index of common.c), and __calc_code_flags.  The operators    *)
(* are pure; ConnectionPool applies them in Init and in the VMInit hook.   *)
(*                                                                         *)
(* A C string is the sequence of its characters (one-character strings);   *)
(* NULL is the null pointer.  strdup copies a string, so it is the string  *)
(* itself here.  The code flag values come from a header generated from    *)
(* the Java class CodeOption.Flag, which is not part of these sources:     *)
(* they are CONSTANTS, distinct single bits.                               *)
(***************************************************************************)
EXTENDS Integers, Sequences, SequencesExt, Bitwise

CONSTANTS NULL,
          CF_CREATE_BYPASS, CF_DYNAMIC_BYPASS,
          CF_SPLIT_METHODS, CF_CATCH_EXCEPTIONS

CodeFlags == <<CF_CREATE_BYPASS, CF_DYNAMIC_BYPASS,
               CF_SPLIT_METHODS, CF_CATCH_EXCEPTIONS>>

ASSUME \A i \in 1..4 :
          /\ \E k \in 0..30 : CodeFlags[i] = 2^k
          /\ \A j \in 1..4 : i # j => CodeFlags[i] # CodeFlags[j]

\* enum bypass_mode; "the ordering of the modes is important".
BYPASS_MODE_DISABLED  == 0
BYPASS_MODE_BOOTSTRAP == 1
BYPASS_MODE_DYNAMIC   == 2

DISL_SERVER_HOST_DEFAULT == <<"l", "o", "c", "a", "l", "h", "o", "s", "t">>
DISL_SERVER_PORT_DEFAULT == <<"1", "1", "2", "1", "7">>
DISL_BYPASS_DEFAULT      == <<"d", "y", "n", "a", "m", "i", "c">>
DISL_SPLIT_METHODS_DEFAULT    == TRUE
DISL_CATCH_EXCEPTIONS_DEFAULT == FALSE

\* The values __configure_from_properties and __parse_bool look up.
BypassNames == << <<"d", "i", "s", "a", "b", "l", "e", "d">>,
                  <<"b", "o", "o", "t", "s", "t", "r", "a", "p">>,
                  DISL_BYPASS_DEFAULT >>
TrueNames == << <<"t", "r", "u", "e">>, <<"y", "e", "s">>,
                <<"o", "n">>, <<"1">> >>

\* tolower in the C locale: the 26 capitals map to their small letters,
\* every other character to itself.
Capitals == <<"A","B","C","D","E","F","G","H","I","J","K","L","M",
              "N","O","P","Q","R","S","T","U","V","W","X","Y","Z">>
Smalls   == <<"a","b","c","d","e","f","g","h","i","j","k","l","m",
              "n","o","p","q","r","s","t","u","v","w","x","y","z">>
tolower(c) ==
    LET k == SelectInSeq(Capitals, LAMBDA u : u = c)
    IN IF k = 0 THEN c ELSE Smalls[k]

\* strcasecmp (a, b) == 0.
strcasecmp_eq(a, b) ==
    /\ Len(a) = Len(b)
    /\ \A i \in 1..Len(a) : tolower(a[i]) = tolower(b[i])

\* find_value_index: the 0-based index of the first value equal to strval
\* ignoring case, or -1.
find_value_index(strval, values) ==
    SelectInSeq(values, LAMBDA v : strcasecmp_eq(v, strval)) - 1

\* __parse_bool: "true", "yes", "on" or "1", in any case.
__parse_bool(strval) == find_value_index(strval, TrueNames) >= 0

\* jvmti_get_system_property_bool: the parsed value of a defined property,
\* the default of an undefined one (GetSystemProperty leaves value NULL).
jvmti_get_system_property_bool(value, dflval) ==
    IF value # NULL THEN __parse_bool(value) ELSE dflval

\* jvmti_get_system_property_string: a copy of the value or of the default.
jvmti_get_system_property_string(value, dflval) ==
    IF value # NULL THEN value ELSE dflval

\* __configure_from_properties, given the values of the properties
\* disl.bypass, disl.splitmethods and disl.excepthandler (NULL when
\* undefined).  An unknown bypass mode leaves bypass_mode = -1, on which
\* the code's check_error ends the process.  The debug flag only switches
\* rdprintf output and is left out.
__configure_from_properties(props) ==
    [bypass_mode      |-> find_value_index(
                              jvmti_get_system_property_string(
                                  props.bypass, DISL_BYPASS_DEFAULT),
                              BypassNames),
     split_methods    |-> jvmti_get_system_property_bool(
                              props.splitmethods, DISL_SPLIT_METHODS_DEFAULT),
     catch_exceptions |-> jvmti_get_system_property_bool(
                              props.excepthandler, DISL_CATCH_EXCEPTIONS_DEFAULT)]

\* A variant of strchr that finds the last occurrence (strrchr).
strrchr(s, ch) == SelectLastInSeq(s, LAMBDA x : x = ch)

\* strchr: the position of the first ch in s, 0 (NULL) if there is none.
strchr(s, ch) == SelectInSeq(s, LAMBDA x : x = ch)

\* __configure_from_options: the defaults without options; otherwise the
\* host is the text before the first ':' and the port the text after it.
\* Without a ':' the port is never assigned and keeps the value of the
\* zero-initialised static agent_config: NULL.
__configure_from_options(options) ==
    IF options = NULL
    THEN [server_host |-> DISL_SERVER_HOST_DEFAULT,
          server_port |-> DISL_SERVER_PORT_DEFAULT]
    ELSE LET port_start == strchr(options, ":") IN
         IF port_start = 0
         THEN [server_host |-> options, server_port |-> NULL]
         ELSE [server_host |-> SubSeq(options, 1, port_start - 1),
               server_port |-> SubSeq(options, port_start + 1, Len(options))]

\* Agent_OnLoad: __configure_from_options, then __configure_from_properties,
\* into the one struct config.
agent_config_of(options, props) ==
    __configure_from_options(options) @@ __configure_from_properties(props)

\* A variant of __calc_code_flags that compares the mode past the last one.
__calc_code_flags_past_dynamic(config, jvm_is_booting) ==
    (IF config.bypass_mode > BYPASS_MODE_DISABLED /\ jvm_is_booting
     THEN CF_CREATE_BYPASS ELSE 0)
    | (IF config.bypass_mode > BYPASS_MODE_DYNAMIC
       THEN CF_CREATE_BYPASS | CF_DYNAMIC_BYPASS ELSE 0)
    | (IF config.split_methods THEN CF_SPLIT_METHODS ELSE 0)
    | (IF config.catch_exceptions THEN CF_CATCH_EXCEPTIONS ELSE 0)

\* __calc_code_flags: bypass code while the JVM boots if any bypass is
\* wanted, bypass and dynamic-bypass code always in dynamic mode, and the
\* split and catch flags as configured.
__calc_code_flags(config, jvm_is_booting) ==
    (IF config.bypass_mode > BYPASS_MODE_DISABLED /\ jvm_is_booting
     THEN CF_CREATE_BYPASS ELSE 0)
    | (IF config.bypass_mode > BYPASS_MODE_BOOTSTRAP
       THEN CF_CREATE_BYPASS | CF_DYNAMIC_BYPASS ELSE 0)
    | (IF config.split_methods THEN CF_SPLIT_METHODS ELSE 0)
    | (IF config.catch_exceptions THEN CF_CATCH_EXCEPTIONS ELSE 0)

\* The flag f is set in the word w.
HasFlag(w, f) == (w & f) # 0
=============================================================================
