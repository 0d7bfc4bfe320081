-------------------------- MODULE ProxyStoreCLI_proofs --------------------------
(***************************************************************************)
(* Proofs about building a Store from the command line.                    *)
(*                                                                         *)
(* The argument for ConnectorArgsPresent: argparse keeps the last          *)
(* --ps-backend occurrence; when no occurrence is abbreviated, that one is *)
(* spelled in full or with "=", so the regexes of add_proxystore_options   *)
(* saw its backend name and marked every option of that backend required; *)
(* parsing succeeded, so all of them were given; and each attribute a     *)
(* connector reads without a default is one of the options the regexes   *)
(* require for its backend.  CInv records what parsing established.       *)
(***************************************************************************)
EXTENDS ProxyStoreCLI, TLAPS

(* The table of connector needs (proxystore.py) is covered by the table  *)
(* of regexes (argparse.py): an attribute a connector reads is required    *)
(* whenever its backend is named.                                          *)
LEMMA UsesRequired ==
  \A b \in Backends : \A d \in Uses[b] : d \in Options /\ b \in RequiredBy[d]
BY DEF Backends, Uses, Options, RequiredBy

(* The value argparse keeps for --ps-backend is the value of one of its   *)
(* occurrences.                                                             *)
LEMMA ParsedOccurs ==
  ASSUME NEW args, Parsed(args, "ps_backend") # None
  PROVE  \E i \in DOMAIN args : /\ args[i].dest = "ps_backend"
                                /\ args[i].value = Parsed(args, "ps_backend")
BY DEF Parsed

(* A --ps-backend occurrence has a backend name as its value, and unless  *)
(* it is abbreviated the regexes see that name.                            *)
LEMMA OccurrenceMentioned ==
  ASSUME "abbrev" \notin Spellings, NEW args \in Argvs,
         NEW i \in DOMAIN args, args[i].dest = "ps_backend"
  PROVE  /\ args[i].value \in Backends
         /\ args[i].value \in Mentioned(args)
<1>1. args[i] \in Arg
  BY DEF Argvs
<1>2. args[i].value \in Backends /\ args[i].spelling \in {"full", "attached"}
  BY <1>1, CLIAssumption DEF Arg, Options
<1>. QED
  BY <1>2 DEF Mentioned

(* The parsed backend is None or a backend name. *)
LEMMA ParsedType ==
  ASSUME NEW args \in Argvs
  PROVE  Parsed(args, "ps_backend") \in Backends \cup {None}
<1>1. CASE Parsed(args, "ps_backend") # None
  <2>1. PICK i \in DOMAIN args : /\ args[i].dest = "ps_backend"
                                 /\ args[i].value = Parsed(args, "ps_backend")
    BY <1>1, ParsedOccurs
  <2>2. args[i] \in Arg
    BY DEF Argvs
  <2>. QED
    BY <2>1, <2>2 DEF Arg, Options
<1>. QED
  BY <1>1

LEMMA InitCInv == Init => CInv
BY CLIAssumption DEF Init, CInv, TypeOK, ParsedInv, Phases

LEMMA NextCInv == CInv /\ [Next]_vars => CInv'
<1> SUFFICES ASSUME CInv, [Next]_vars PROVE CInv'
  OBVIOUS
<1>1. CASE ParseArgs
  <2>1. Parsed(argv, "ps_backend") \in Backends \cup {None}
    BY ParsedType DEF CInv, TypeOK
  <2>. QED
    BY <1>1, <2>1 DEF ParseArgs, CInv, TypeOK, ParsedInv, Phases
<1>2. CASE InitStore
  <2>1. backend \in Backends => Uses[backend] \subseteq Options
    BY UsesRequired
  <2>. QED
    BY <1>2, <2>1 DEF InitStore, CInv, TypeOK, ParsedInv, Phases
<1>3. CASE UNCHANGED vars
  BY <1>3 DEF vars, CInv, TypeOK, ParsedInv
<1>. QED
  BY <1>1, <1>2, <1>3 DEF Next

(* With --ps-backend never abbreviated, every store init_store_from_args *)
(* builds gets each attribute its connector reads from the command line:  *)
(* the regexes over sys.argv and argparse agree on the backend, whatever  *)
(* the argument list, its length, repetitions and the required= flag.     *)
THEOREM ConnectorArgsPresentHolds ==
  ASSUME "abbrev" \notin Spellings
  PROVE  Spec => []ConnectorArgsPresent
<1>1. CInv => ConnectorArgsPresent
  <2> SUFFICES ASSUME CInv, phase = "store"
               PROVE  Uses[backend] \ Given(argv) = {}
    BY DEF ConnectorArgsPresent, CInv, ParsedInv
  <2>1. /\ backend = Parsed(argv, "ps_backend") /\ backend # None
        /\ RequiredOptions(argv) \subseteq Given(argv)
        /\ argv \in Argvs
    BY DEF CInv, ParsedInv, TypeOK
  <2>2. PICK i \in DOMAIN argv : /\ argv[i].dest = "ps_backend"
                                 /\ argv[i].value = backend
    BY <2>1, ParsedOccurs
  <2>3. backend \in Backends /\ backend \in Mentioned(argv)
    BY <2>1, <2>2, OccurrenceMentioned
  <2>4. ASSUME NEW d \in Uses[backend] PROVE d \in Given(argv)
    <3>1. d \in Options /\ backend \in RequiredBy[d]
      BY <2>3, UsesRequired
    <3>2. d \in RequiredOptions(argv)
      BY <2>3, <3>1 DEF RequiredOptions
    <3>. QED
      BY <2>1, <3>2
  <2>. QED
    BY <2>4
<1>. QED
  BY <1>1, InitCInv, NextCInv, PTL DEF Spec

=============================================================================
