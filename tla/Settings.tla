------------------------------ MODULE Settings ------------------------------
(***************************************************************************)
(* The configuration of a run: the command line is parsed first            *)
(* (src/src/cli/options.c), then the file is read over the defaults, key   *)
(* by key (src/src/config), and the options are laid over that             *)
(* (src/src/cli/apply.c).                                                  *)
(*                                                                         *)
(* A value is a member of a small set, or Bad: out of range, of the wrong  *)
(* type, too long.  on_apply and the backend args are lists that follow    *)
(* the same rules.  An entry with an unknown key changes nothing and is    *)
(* left out.                                                               *)
(***************************************************************************)
EXTENDS Integers, Sequences, SequencesExt

CONSTANTS
  Scalars,    \* keys with one value, "backend" among them
  Lists,      \* keys with a list of values
  FileValues, OptionValues, \* values, by where they come from
  FileItems,  \* items of the lists of the file
  MaxHooks,   \* MATUWALL_MAX_HOOKS, MATUWALL_MAX_BACKEND_ARGS
  MaxOptions, \* bound: options on the command line
  MaxLines,   \* bound: entries of the file
  Default, Bad

(* Names are told apart, and Default is what an option that was not given  *)
(* has.                                                                    *)
ASSUME NamesAssumption ==
  /\ "backend" \in Scalars /\ Scalars \intersect Lists = {}
  /\ {"command", "config", "no-config"} \intersect (Scalars \union Lists) = {}
ASSUME DefaultAssumption == Default \notin OptionValues

VARIABLES
  phase,   \* "options", "load", "file", "apply", "ready", "exit"
  options, \* struct matuwall_cli_options
  config,  \* struct matuwall_config
  file,    \* "none", "open", "broken", or "read" to its end or to an error
  said,    \* the options so far
  entries  \* the entries of the file so far

settling == <<phase, options, config, file, said, entries>>

Defaults == [values |-> [k \in Scalars |-> Default], lists |-> [l \in Lists |-> <<>>]]

SettingsInit ==
  /\ phase = "options"
  /\ options = [values |-> [k \in Scalars |-> Default],
                lists |-> [l \in Lists |-> [set |-> FALSE, items |-> <<>>]],
                command |-> FALSE, no_config |-> FALSE, path_set |-> FALSE]
  /\ config = Defaults
  /\ file = "none" /\ said = <<>> /\ entries = <<>>

-----------------------------------------------------------------------------
(* matuwall_cli_parse, an option at a time.                                *)

Say(option) ==
  /\ phase = "options" /\ Len(said) < MaxOptions
  /\ said' = Append(said, option)
  /\ UNCHANGED <<config, file, entries>>

Continue == UNCHANGED phase

\* The value has been checked, it is set when the file has been read.
KeyOption(k, v) ==
  /\ Say([kind |-> "key", of |-> k, value |-> v])
  /\ options' = [options EXCEPT !.values[k] = v] /\ Continue

\* The first one replaces the configured list, later ones append.
ItemOption(l, v) ==
  /\ Say([kind |-> "item", of |-> l, value |-> v])
  /\ LET items == IF options.lists[l].set THEN options.lists[l].items ELSE <<>>
     IN  IF Len(items) = MaxHooks THEN phase' = "exit" /\ UNCHANGED options
         ELSE /\ options' = [options EXCEPT !.lists[l] = [set |-> TRUE, items |-> Append(items, v)]]
              /\ Continue

NoItemsOption(l) ==
  /\ Say([kind |-> "no", of |-> l, value |-> Default])
  /\ options' = [options EXCEPT !.lists[l] = [set |-> TRUE, items |-> <<>>]] /\ Continue

CommandOption ==
  /\ Say([kind |-> "command", of |-> "command", value |-> Default])
  /\ options' = [options EXCEPT !.command = TRUE] /\ Continue

ConfigOption ==
  /\ Say([kind |-> "config", of |-> "config", value |-> Default])
  /\ options' = [options EXCEPT !.path_set = TRUE, !.no_config = FALSE] /\ Continue

NoConfigOption ==
  /\ Say([kind |-> "config", of |-> "no-config", value |-> Default])
  /\ options' = [options EXCEPT !.path_set = FALSE, !.no_config = TRUE] /\ Continue

\* A bad value or an unknown option, or an action that needs no configuration.
EndOption ==
  /\ phase = "options" /\ phase' = "exit"
  /\ UNCHANGED <<options, config, file, said, entries>>

Parsed ==
  /\ phase = "options" /\ phase' = "load"
  /\ UNCHANGED <<options, config, file, said, entries>>

-----------------------------------------------------------------------------
(* load_config and matuwall_toml_parse, an entry at a time.                *)

\* A named file has to be there, the standard one need not.
Load ==
  /\ phase = "load"
  /\ config' = Defaults
  /\ \/ options.no_config /\ phase' = "apply" /\ UNCHANGED file
     \/ ~options.no_config /\ phase' = "file" /\ file' = "open"
     \/ ~options.no_config /\ phase' = (IF options.path_set THEN "exit" ELSE "apply") /\ UNCHANGED file
  /\ UNCHANGED <<options, said, entries>>

Read(entry) ==
  /\ phase = "file" /\ Len(entries) < MaxLines
  /\ entries' = Append(entries, entry)
  /\ UNCHANGED <<phase, options, file, said>>

\* A value that does not fit leaves the key as it is.
KeyEntry(k, v) ==
  /\ Read([of |-> k, value |-> v])
  /\ config' = IF v = Bad THEN config ELSE [config EXCEPT !.values[k] = v]

\* The first items that fit.
Fitting(items) ==
  LET good == SelectSeq(items, LAMBDA v : v # Bad)
  IN  SubSeq(good, 1, IF Len(good) < MaxHooks THEN Len(good) ELSE MaxHooks)

ListEntry(l, items) ==
  /\ Read([of |-> l, value |-> items])
  /\ config' = IF items = Bad THEN config ELSE [config EXCEPT !.lists[l] = Fitting(items)]

(* Definitions named Bug... are faulty variants of the definition that     *)
(* follows them, see DecodeBudget.                                         *)

\* The entries before the broken one stay.
BugBroken ==
  /\ phase = "file" /\ file' = "broken"
  /\ phase' = IF options.path_set THEN "exit" ELSE "apply"
  /\ UNCHANGED <<options, config, said, entries>>

\* A line that is no entry costs the whole file.
Broken ==
  /\ phase = "file" /\ file' = "broken"
  /\ config' = Defaults
  /\ phase' = IF options.path_set THEN "exit" ELSE "apply"
  /\ UNCHANGED <<options, said, entries>>

(* fgets has nothing more: the end of the file, or an error of reading it, *)
(* which nobody asks for: it counts as the end, and what was read before   *)
(* stays.  A directory that is named as the file fails at its first line.  *)
EndOfFile ==
  /\ phase = "file" /\ file' = "read" /\ phase' = "apply"
  /\ UNCHANGED <<options, config, said, entries>>

-----------------------------------------------------------------------------
\* A command for this run means using it, unless -b names another backend.
Overridden(k) ==
  IF options.values[k] # Default THEN options.values[k]
  ELSE IF k = "backend" /\ options.command THEN "command"
  ELSE config.values[k]

\* matuwall_cli_apply
Apply ==
  /\ phase = "apply" /\ phase' = "ready"
  /\ config' = [values |-> [k \in Scalars |-> Overridden(k)],
                lists |-> [l \in Lists |-> IF options.lists[l].set THEN options.lists[l].items
                                           ELSE config.lists[l]]]
  /\ UNCHANGED <<options, file, said, entries>>

Done == phase \in {"ready", "exit"} /\ UNCHANGED settling

Arrays == SeqOf(FileItems \union {Bad}, MaxHooks + 1)

SettingsNext ==
  \/ \E k \in Scalars, v \in OptionValues : KeyOption(k, v)
  \/ \E l \in Lists, v \in OptionValues : ItemOption(l, v)
  \/ \E l \in Lists : NoItemsOption(l)
  \/ CommandOption \/ ConfigOption \/ NoConfigOption \/ EndOption \/ Parsed \/ Load
  \/ \E k \in Scalars, v \in FileValues \union {Bad} : KeyEntry(k, v)
  \/ \E l \in Lists, items \in Arrays \union {Bad} : ListEntry(l, items)
  \/ Broken \/ EndOfFile \/ Apply \/ Done

-----------------------------------------------------------------------------
(* The reference: what was said and read, looked at as a whole.            *)

Sayings(name) == {i \in DOMAIN said : said[i].of = name}

Latest(seq, places) == seq[CHOOSE i \in places : \A j \in places : j <= i]

Good(name) == {i \in DOMAIN entries : entries[i].of = name /\ entries[i].value # Bad}

\* No line of the file was broken, as far as it was read.
Used == file = "read"

\* What a file that is used has to say.
InFile(name) == IF Used THEN Good(name) ELSE {}

\* Behind the last option that clears the list.
Kept(l) == {i \in Sayings(l) : \A j \in Sayings(l) : i <= j => said[j].kind = "item"}

\* The items said last, all of them in their order.
ItemsSaid(l, items) ==
  \E place \in [DOMAIN items -> Kept(l)] :
    /\ \A i \in Kept(l) : \E k \in DOMAIN items : place[k] = i
    /\ \A j, k \in DOMAIN items : j < k => place[j] < place[k]
    /\ \A k \in DOMAIN items : items[k] = said[place[k]].value

About == {i \in DOMAIN said : said[i].kind = "config"}

(* The settings of the run are, each by itself, the last thing said on the *)
(* command line, or the last good entry that was read from a file without  *)
(* a broken line, or the default: an invalid value leaves the entry before *)
(* it, a broken line costs the whole file, and a list is never put         *)
(* together from both.  A run that was told to read a file has opened one  *)
(* and met no broken line (an error of reading may have cut it short), one *)
(* that was told to read none has read none; the last one said counts.     *)
Resolved ==
  phase = "ready" =>
    /\ \A k \in Scalars :
         config.values[k] =
           IF Sayings(k) # {} THEN Latest(said, Sayings(k)).value
           ELSE IF k = "backend" /\ Sayings("command") # {} THEN "command"
           ELSE IF InFile(k) # {} THEN Latest(entries, InFile(k)).value
           ELSE Default
    /\ \A l \in Lists :
         IF Sayings(l) # {} THEN ItemsSaid(l, config.lists[l])
         ELSE config.lists[l] =
                IF InFile(l) # {} THEN Fitting(Latest(entries, InFile(l)).value) ELSE <<>>
    /\ About # {} =>
         IF Latest(said, About).of = "config" THEN Used ELSE file = "none"
=============================================================================
