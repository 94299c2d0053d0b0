---------------------------- MODULE ChatSettings ----------------------------
(***************************************************************************)
(* The chat commands that change a setting: each loads the configuration   *)
(* file, changes its copy and writes the whole of it back, with no lock    *)
(* and on a thread of its own; "/settings model next" waits for the lists  *)
(* of the providers in between.                                            *)
(*                                                                         *)
(* A save truncates the file and then writes it.  An empty file parses, as *)
(* the defaults; two saves in one another may leave the end of the longer  *)
(* text behind the shorter one, which does not parse.                      *)
(***************************************************************************)
EXTENDS Integers

CONSTANTS
  Callers,    \* commands at a time
  Keys,       \* the settings
  Values, Default,
  Cycled,     \* the settings that are changed by "next"
  MaxCalls, MaxFaults

SettingsAssumption ==
  /\ Keys # {} /\ Default \in Values /\ Cycled \subseteq Keys /\ {MaxCalls, MaxFaults} \subseteq Nat

Settings == [Keys -> Values]
Defaults == [k \in Keys |-> Default]

VARIABLES
  kind, text,      \* the file: "whole", "empty" or "broken", and what it says
  pc, mine, key,   \* where each command is, its copy, the setting it changes
  calls, faults,
  last, behind, undone  \* history: what was reported, what each copy is behind of, what a save undid

file == <<kind, text>>
history == <<last, behind, undone>>
vars == <<file, pc, mine, key, calls, faults, history>>

TypeOK ==
  /\ kind \in {"whole", "empty", "broken"} /\ text \in Settings
  /\ pc \in [Callers -> {"idle", "lists", "loaded", "saving"}]
  /\ mine \in [Callers -> Settings] /\ key \in [Callers -> Keys]
  /\ calls \in 0 .. MaxCalls /\ faults \in 0 .. MaxFaults
  /\ last \in Settings /\ behind \in [Callers -> SUBSET Keys] /\ undone \subseteq Keys

Init ==
  /\ kind = "whole" /\ text = Defaults
  /\ pc = [t \in Callers |-> "idle"] /\ mine = [t \in Callers |-> Defaults]
  /\ key \in [Callers -> {CHOOSE k \in Keys : TRUE}]
  /\ calls = 0 /\ faults = 0
  /\ last = Defaults /\ behind = [t \in Callers |-> {}] /\ undone = {}

Go(t, where) == pc' = [pc EXCEPT ![t] = where]
Fault == faults < MaxFaults /\ faults' = faults + 1

\* load_config: a broken file ends the command.
Load(t, k, v) ==
  /\ pc[t] = "idle" /\ calls < MaxCalls /\ kind # "broken"
  /\ calls' = calls + 1
  /\ mine' = [mine EXCEPT ![t] = [(IF kind = "whole" THEN text ELSE Defaults) EXCEPT ![k] = v]]
  /\ key' = [key EXCEPT ![t] = k]
  /\ behind' = [behind EXCEPT ![t] = IF kind = "whole" THEN {} ELSE Keys]
  /\ UNCHANGED <<file, faults, last, undone>>

Change(t, k, v) == Load(t, k, v) /\ Go(t, "loaded")
SwitchModel(t, k, v) == k \in Cycled /\ Load(t, k, v) /\ Go(t, "lists")

\* list_all_models().await
Listed(t) ==
  /\ pc[t] = "lists" /\ Go(t, "loaded")
  /\ UNCHANGED <<file, mine, key, calls, faults, history>>

Truncate(t) ==
  /\ pc[t] = "loaded" /\ Go(t, "saving")
  /\ kind' = "empty"
  /\ UNCHANGED <<text, mine, key, calls, faults, history>>

Write(t) ==
  /\ pc[t] = "saving" /\ Go(t, "idle")
  /\ text' = mine[t]
  /\ kind' \in {"whole"} \union IF kind = "empty" THEN {} ELSE {"broken"}
  /\ last' = [last EXCEPT ![key[t]] = mine[t][key[t]]]
  /\ undone' = (undone \union behind[t]) \ {key[t]}
  /\ behind' = [u \in Callers |-> behind[u] \union {key[t]}]
  /\ UNCHANGED <<mine, key, calls, faults>>

\* The disk is full: the command reports it, the old text is gone.
WriteFails(t) ==
  /\ pc[t] = "saving" /\ Fault /\ Go(t, "idle")
  /\ UNCHANGED <<file, mine, key, calls, history>>

Crash ==
  /\ Fault
  /\ pc' = [t \in Callers |-> "idle"]
  /\ UNCHANGED <<file, mine, key, calls, history>>

Next ==
  \/ Crash
  \/ \E t \in Callers :
       \/ Listed(t) \/ Truncate(t) \/ Write(t) \/ WriteFails(t)
       \/ \E k \in Keys, v \in Values : Change(t, k, v) \/ SwitchModel(t, k, v)

Spec == Init /\ [][Next]_vars

-----------------------------------------------------------------------------
(* Properties                                                              *)

\* A change that was reported stays until its setting is changed again ("and
\* persist to config", commands.rs:604), unless a command that had loaded the
\* file before the change, or found it empty, saved its copy after it.
ChangesStay == kind = "whole" => \A k \in Keys : text[k] = last[k] \/ k \in undone

=============================================================================
