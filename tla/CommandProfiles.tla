---------------------------- MODULE CommandProfiles ----------------------------
(***************************************************************************)
(* The commands a process sends to each model: command_profiles.py.  Every  *)
(* start validates the optional override file and, if all of it is right,   *)
(* replaces the built-in profiles, aliases and default commands by its own. *)
(* Operators edit the file at any time; a process reads it when it starts.  *)
(***************************************************************************)
EXTENDS Naturals, SequencesExt

CONSTANTS
    FileKeys,      \* keys that profiles may have in the file
    Commands,      \* commands that its lists may have
    MaxCommands    \* bound on the length of a list in the file

ASSUME CommandProfilesAssumption == MaxCommands \in Nat

\* _normalize_model makes the first two one model.
Normalize(key) == IF key = "Cisco" THEN "cisco" ELSE key
Models == {"cisco", "linux", "generic_linux", "unknown"}

\* A key that is not a word is refused, and a command that is not a printable line.
ValidKey(key)   == key # "r/1"
ValidList(list) == "bad" \notin Range(list)

Lists     == BoundedSeq(Commands, MaxCommands)
NoEntry   == [k \in {} |-> <<>>]

With(entries, key, value) ==
    [k \in DOMAIN entries \cup {key} |-> IF k = key THEN value ELSE entries[k]]

VARIABLES
    file,      \* the override file
    pc,        \* of the process: "down", "up" or "refused" (start-up failed)
    active     \* ACTIVE_COMMAND_PROFILES, _DEFAULT_COMMANDS and _MODEL_ALIASES

profileVars == <<file, pc, active>>

\* shaped: YAML, a mapping, with the expected top-level keys and values of the right
\* types.
NoFile == [exists |-> FALSE, shaped |-> TRUE,
           profiles |-> NoEntry, default |-> <<>>, aliases |-> NoEntry]

BuiltIn ==
    [profiles |-> [m \in {"cisco", "linux"} |-> <<"show version", "built-in">>],
     default  |-> <<"show version">>,
     aliases  |-> [m \in {"generic_linux"} |-> "linux"]]

ProfileInit ==
    /\ file = NoFile
    /\ pc = "down"
    /\ active = BuiltIn

\* Every profile and every alias has valid keys.
KeysAreValid(f) ==
    /\ \A k \in DOMAIN f.profiles : ValidKey(k)
    /\ \A m \in DOMAIN f.aliases : ValidKey(m) /\ ValidKey(f.aliases[m])

\* An editor begins a file, removes it, or changes one thing at a time.  What else a
\* file holds that has the wrong shape or a refused key makes no difference.
Entries == file.exists /\ file.shaped /\ KeysAreValid(file)
EditFile ==
    /\ \/ file' = NoFile
       \/ \E shaped \in BOOLEAN : file' = [NoFile EXCEPT !.exists = TRUE, !.shaped = shaped]
       \/ Entries /\ \E k \in FileKeys, list \in Lists :
             /\ ValidKey(k) \/ list = <<>>
             /\ file' = [file EXCEPT !.profiles = With(@, k, list)]
       \/ Entries /\ \E list \in Lists : file' = [file EXCEPT !.default = list]
       \/ Entries /\ \E k \in FileKeys :
             file' = [file EXCEPT !.aliases = With(@, "unknown", k)]
    /\ UNCHANGED <<pc, active>>

DedupeKeepOrder(list) ==
    FoldLeft(LAMBDA kept, c : IF c \in Range(kept) THEN kept ELSE Append(kept, c), <<>>, list)

\* Mutant of Valid: the default commands are not looked at one by one.
ValidProfilesOnly(f) ==
    /\ f.shaped
    /\ KeysAreValid(f)
    /\ f.profiles # NoEntry /\ f.default # <<>>
    /\ \A k \in DOMAIN f.profiles : ValidList(f.profiles[k])

\* _load_override_profiles raises nothing.  A profile may be an empty list.
Valid(f) ==
    /\ f.shaped
    /\ KeysAreValid(f)
    /\ f.profiles # NoEntry /\ f.default # <<>>
    /\ \A k \in DOMAIN f.profiles : ValidList(f.profiles[k])
    /\ ValidList(f.default)

\* Two keys of one model: the later one in the file wins, whichever that is.
Parsed(f) ==
    LET models == {Normalize(k) : k \in DOMAIN f.profiles}
        chosen == {c \in [models -> DOMAIN f.profiles] : \A m \in models : Normalize(c[m]) = m}
    IN {[profiles |-> [m \in models |-> DedupeKeepOrder(f.profiles[c[m]])],
         default |-> DedupeKeepOrder(f.default),
         aliases |-> [m \in DOMAIN f.aliases |-> Normalize(f.aliases[m])]] : c \in chosen}

\* Mutant of Replace: the built-in aliases are not cleared first.
ReplaceMerging(new) == [new EXCEPT !.aliases = With(@, "generic_linux", "linux")]

Replace(new) == new

\* validate_command_profile_config, before the process does anything else.
Start ==
    /\ pc = "down"
    /\ \/ ~file.exists /\ active' = BuiltIn /\ pc' = "up"
       \/ /\ file.exists /\ Valid(file)
          /\ \E new \in Parsed(file) : active' = Replace(new)
          /\ pc' = "up"
       \/ file.exists /\ ~Valid(file) /\ pc' = "refused" /\ UNCHANGED active
    /\ UNCHANGED file

\* The process ends, or its supervisor tries again.
Stop ==
    /\ pc \in {"up", "refused"}
    /\ pc' = "down"
    /\ active' = BuiltIn
    /\ UNCHANGED file

ProfileNext == EditFile \/ Start \/ Stop

ProfileSpec == ProfileInit /\ [][ProfileNext]_profileVars

Resolve(model) ==
    IF model \in DOMAIN active.aliases THEN active.aliases[model] ELSE model

CommandsForModel(model) ==
    IF Resolve(model) \in DOMAIN active.profiles
    THEN active.profiles[Resolve(model)] ELSE active.default
-----------------------------------------------------------------------------
(* Properties                                                               *)

\* "Invalid YAML or schema causes startup failure (fail closed)" (README.md): a
\* process that is up sends no command, to any model, that validation forbids,
\* and none twice.
FailClosed ==
    pc = "up" =>
        \A m \in Models :
            LET commands == CommandsForModel(m) IN
            /\ ValidList(commands)
            /\ \A i, j \in DOMAIN commands : commands[i] = commands[j] => i = j

\* The lists that a file has for a model, as they are written: several if keys of it
\* are one model.
ListsOf(model) ==
    LET keys == {k \in DOMAIN file.profiles : Normalize(k) = model} IN
    IF keys = {} THEN {file.default} ELSE {file.profiles[k] : k \in keys}

\* The commands are those of the list, each where the list first has it.
InOrderOf(commands, list) ==
    /\ Range(commands) = Range(list)
    /\ \A i, j \in DOMAIN commands : i < j =>
          \E p \in DOMAIN list :
              /\ list[p] = commands[i]
              /\ \A q \in DOMAIN list : list[q] = commands[j] => p < q

\* Without a file everything is built in.  With one, a model is resolved by its
\* aliases, and is sent its list for what that gives, or its default list.
OfThisFile ==
    IF file.exists
    THEN \A m \in Models :
             /\ Resolve(m) = IF m \in DOMAIN file.aliases THEN Normalize(file.aliases[m]) ELSE m
             /\ \E list \in ListsOf(Resolve(m)) : InOrderOf(CommandsForModel(m), list)
    ELSE active = BuiltIn

\* The override is to "fully replace defaults" and its removal "to return to
\* defaults" (README.md): a process that comes up mixes neither the two nor an
\* earlier file with the present one (validate_command_profile_config).
ReplacedEntirely == [][pc = "down" /\ pc' = "up" => OfThisFile']_profileVars
=============================================================================
