--------------------------- MODULE ProxyStoreCLI ---------------------------
(***************************************************************************)
(* Building a ProxyStore Store from the command line:                      *)
(*   add_proxystore_options (src/psbench/argparse.py) decides which         *)
(*   backend-specific flags are required by searching " ".join(sys.argv)    *)
(*   for "--ps-backend" followed by a space or "=" and a backend name;     *)
(*   argparse then parses the arguments (last occurrence wins, a unique     *)
(*   prefix of a long flag is accepted, a missing required flag exits);     *)
(*   init_store_from_args (src/psbench/proxystore.py) dispatches on         *)
(*   args.ps_backend and builds the connector from the parsed attributes.  *)
(* An argument is a flag occurrence: its destination, how the flag is       *)
(* spelled ("full" --ps-backend X, "attached" --ps-backend=X, "abbrev" an   *)
(* unambiguous prefix such as --ps-back X) and its value.  Values other    *)
(* than backend names are irrelevant and all written "v".                  *)
(***************************************************************************)
EXTENDS Naturals, Sequences, FiniteSets

CONSTANTS
    MaxArgs,        \* longest argument list enumerated
    Spellings,      \* spellings of --ps-backend the user may type
    RequiredFlags   \* values of the required= parameter of the call

ASSUME CLIAssumption ==
    /\ MaxArgs \in Nat
    /\ Spellings \subseteq {"full", "attached", "abbrev"}
    /\ Spellings # {}
    /\ RequiredFlags \subseteq BOOLEAN
    /\ RequiredFlags # {}

(* choices of --ps-backend, lines 103-116 *)
Backends == {"FILE", "GLOBUS", "REDIS", "ENDPOINT", "MARGO", "UCX", "ZMQ"}

(* Backend-specific destinations whose requiredness is computed. *)
Options == {"ps_endpoints", "ps_file_dir", "ps_globus_config", "ps_host",
            "ps_port"}

None == "None"

Arg ==
    [dest : {"ps_backend"}, spelling : Spellings, value : Backends]
      \cup [dest : Options, spelling : {"full"}, value : {"v"}]

Argvs == UNION {[1..n -> Arg] : n \in 0..MaxArgs}

(* A faulty variant for mutation analysis: --ps-port not required for    *)
(* MARGO in the table of lines 149-160.                                    *)
RequiredByMargoPortless ==
    [ps_endpoints     |-> {"ENDPOINT"},
     ps_file_dir      |-> {"FILE"},
     ps_globus_config |-> {"GLOBUS"},
     ps_host          |-> {"REDIS"},
     ps_port          |-> {"REDIS", "UCX", "ZMQ"}]

(* Lines 118-160: the backends whose name, after "--ps-backend" and a     *)
(* space or "=", makes the option required.                                *)
RequiredBy ==
    [ps_endpoints     |-> {"ENDPOINT"},
     ps_file_dir      |-> {"FILE"},
     ps_globus_config |-> {"GLOBUS"},
     ps_host          |-> {"REDIS"},
     ps_port          |-> {"REDIS", "MARGO", "UCX", "ZMQ"}]

(* The backend names re.search finds in " ".join(sys.argv): only a flag  *)
(* spelled out in full matches the pattern.                                *)
Mentioned(args) ==
    {args[i].value : i \in {j \in DOMAIN args :
                              /\ args[j].dest = "ps_backend"
                              /\ args[j].spelling \in {"full", "attached"}}}

RequiredOptions(args) ==
    {d \in Options : RequiredBy[d] \cap Mentioned(args) # {}}

Given(args) == {args[i].dest : i \in DOMAIN args}

(* argparse keeps the value of the last occurrence, the one no later     *)
(* occurrence overrides, or the default None.                              *)
Parsed(args, d) ==
    LET last == {i \in DOMAIN args :
                   /\ args[i].dest = d
                   /\ \A j \in DOMAIN args : args[j].dest = d => j <= i}
    IN  IF last = {} THEN None ELSE args[CHOOSE i \in last : TRUE].value

(* Lines 43-72: the attributes each connector is built from that have     *)
(* no default in the connector (ps_margo_protocol, ps_address and          *)
(* ps_interface do).                                                        *)
Uses ==
    [b \in Backends |->
        CASE b = "ENDPOINT" -> {"ps_endpoints"}
          [] b = "FILE"     -> {"ps_file_dir"}
          [] b = "GLOBUS"   -> {"ps_globus_config"}
          [] b = "REDIS"    -> {"ps_host", "ps_port"}
          [] OTHER          -> {"ps_port"}]

VARIABLES
    argv,       \* sys.argv[1:] (the argument list parse_args reads)
    required,   \* the required= argument of add_proxystore_options
    phase,      \* "start", "parsed", "exited", "store" or "nostore"
    backend,    \* args.ps_backend after parsing
    missing     \* connector attributes passed as None

vars == <<argv, required, phase, backend, missing>>

Phases == {"start", "parsed", "exited", "store", "nostore"}

-----------------------------------------------------------------------------
Init ==
    /\ argv \in Argvs
    /\ required \in RequiredFlags
    /\ phase = "start"
    /\ backend = None
    /\ missing = {}

(* add_proxystore_options followed by parser.parse_args(): a required     *)
(* flag missing makes argparse exit with a usage error.                    *)
ParseArgs ==
    /\ phase = "start"
    /\ IF /\ RequiredOptions(argv) \subseteq Given(argv)
          /\ required => "ps_backend" \in Given(argv)
         THEN /\ phase' = "parsed"
              /\ backend' = Parsed(argv, "ps_backend")
         ELSE /\ phase' = "exited"
              /\ UNCHANGED backend
    /\ UNCHANGED <<argv, required, missing>>

(* init_store_from_args: None without a backend, else the connector of   *)
(* the backend, built from the parsed attributes (None when not given).   *)
InitStore ==
    /\ phase = "parsed"
    /\ IF backend = None
         THEN /\ phase' = "nostore"
              /\ UNCHANGED missing
         ELSE /\ phase' = "store"
              /\ missing' = Uses[backend] \ Given(argv)
    /\ UNCHANGED <<argv, required, backend>>

Next == ParseArgs \/ InitStore

Spec == Init /\ [][Next]_vars

-----------------------------------------------------------------------------
TypeOK ==
    /\ argv \in Argvs
    /\ required \in BOOLEAN
    /\ phase \in Phases
    /\ backend \in Backends \cup {None}
    /\ missing \in SUBSET Options

(* The requiredness table of add_proxystore_options agrees with what     *)
(* init_store_from_args reads: whenever parsing succeeds and a store is   *)
(* built, no attribute its connector needs was left at None.              *)
ConnectorArgsPresent ==
    phase = "store" => missing = {}

(* The docstring: backend-specific options are "set as required depending *)
(* on which backend is specified": parsing exits only when the backend    *)
(* that was specified lacks one of its options.                           *)
ExitOnlyForChosenBackend ==
    phase = "exited" =>
        \/ required /\ "ps_backend" \notin Given(argv)
        \/ LET b == Parsed(argv, "ps_backend")
           IN  b # None /\ ~({d \in Options : b \in RequiredBy[d]}
                                \subseteq Given(argv))

-----------------------------------------------------------------------------
(* The strengthening used by the proof in ProxyStoreCLI_proofs: once the *)
(* arguments are parsed, the backend is the parsed one and every option   *)
(* the regexes required was given; a store is built from exactly the      *)
(* attributes of its connector that were not given.                        *)
ParsedInv ==
    /\ phase \in {"parsed", "store", "nostore"} =>
           /\ backend = Parsed(argv, "ps_backend")
           /\ RequiredOptions(argv) \subseteq Given(argv)
    /\ phase = "store" => backend # None /\ missing = Uses[backend] \ Given(argv)

CInv == TypeOK /\ ParsedInv

=============================================================================
