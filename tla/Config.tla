-------------------------------- MODULE Config --------------------------------
(***************************************************************************)
(* The configuration: a file of "name = value" lines is read into pairs,   *)
(* the options are set one after another from their pair or their default, *)
(* and set_config changes them while the program runs                      *)
(* (src/wlib/wconfig.cpp, src/wshare/wserver_cfg.cpp, wcfg.cpp).           *)
(*                                                                         *)
(* A line is a name and the number atoi makes of its value; trimming,      *)
(* quotes and strings are left out. Three options stand for the seventeen: *)
(* the one that is checked, the one with a scale, and one that is plain.   *)
(***************************************************************************)
EXTENDS Integers, Sequences, FiniteSets

CONSTANTS
  Scale,    (* the scale of heart_beat, 1000 in the code           *)
  Unsigned, (* 2^32: unsigned numbers are taken modulo             *)
  Numbers,  (* bound: what a value may be                          *)
  MaxLines, (* bound: length of the file                           *)
  Marked    (* the editor may have put a UTF-8 mark into the file  *)

ConfigAssumption ==
  /\ Scale \in Nat \ {0} /\ Unsigned \in Nat \ {0}
  /\ Numbers \subseteq Int /\ MaxLines \in Nat /\ Marked \in BOOLEAN

VARIABLES
  phase,   (* new, reading, setting, ready, failed                    *)
  file,    (* the lines of the file                                   *)
  mark,    (* the file starts with EF BB BF                           *)
  line,    (* the line to read next                                   *)
  pairs,   (* m_config_pairs: the set of <<name, number>>             *)
  option,  (* the option to set next                                  *)
  configs, (* m_configs                                               *)
  changed  (* options set_config has changed, and the number given    *)

fileVars == <<file, mark>>
vars     == <<phase, fileVars, line, pairs, option, configs, changed>>

Options ==
  << [name |-> "time_zone",         signed |-> TRUE,  default |-> 8,  scale |-> 1],
     [name |-> "heart_beat",        signed |-> FALSE, default |-> 12, scale |-> Scale],
     [name |-> "wan_max_recv_size", signed |-> FALSE, default |-> 10, scale |-> 1] >>

Names == {Options[i].name : i \in DOMAIN Options}
Zone  == 1
Lines == [name : Names, value : Numbers] \cup {[name |-> "#", value |-> 0]}
Files == UNION {[1..n -> Lines] : n \in 0..MaxLines}
Unset == [i \in DOMAIN Options |-> 0]

Init ==
  /\ phase = "new"
  /\ file \in Files /\ mark \in {FALSE, Marked}
  /\ line = 1 /\ pairs = {}
  /\ option = 1 /\ configs = Unset
  /\ changed = {}

(* wconfig::init and open_file. *)
Open ==
  /\ phase = "new"
  /\ phase' = "reading"
  /\ UNCHANGED <<fileVars, line, pairs, option, configs, changed>>

-----------------------------------------------------------------------------
(* wconfig_file::open: the mark becomes a part of the first name. *)
NameOf(n) == IF mark /\ n = 1 THEN "marked " \o file[n].name ELSE file[n].name

(* add_key_pair. *)
AddKeyPair(name, value) ==
  IF \E p \in pairs : p[1] = name
  THEN phase' = "failed" /\ UNCHANGED <<pairs, line>>
  ELSE pairs' = pairs \cup {<<name, value>>} /\ line' = line + 1 /\ phase' = phase

ReadLine ==
  /\ phase = "reading" /\ line <= Len(file)
  /\ IF file[line].name = "#" THEN line' = line + 1 /\ UNCHANGED <<pairs, phase>>
                              ELSE AddKeyPair(NameOf(line), file[line].value)
  /\ UNCHANGED <<fileVars, option, configs, changed>>

EndOfFile ==
  /\ phase = "reading" /\ line > Len(file)
  /\ phase' = "setting"
  /\ UNCHANGED <<fileVars, line, pairs, option, configs, changed>>

-----------------------------------------------------------------------------
(* get_int32_default and get_uint32_default. *)
ValueOrDefault(o) ==
  IF \E p \in pairs : p[1] = o.name THEN (CHOOSE p \in pairs : p[1] = o.name)[2] ELSE o.default

(* Mutant: the default is taken to be scaled already. *)
DefaultUnscaled(o) ==
  IF \E p \in pairs : p[1] = o.name THEN ValueOrDefault(o) * o.scale ELSE o.default

Scaled(o) == ValueOrDefault(o) * o.scale

Stored(o, number) == IF o.signed THEN number ELSE number % Unsigned

(* set_int32 and set_uint32 of wconfig. *)
SetOption ==
  /\ phase = "setting" /\ option \in DOMAIN Options
  /\ configs' = [configs EXCEPT ![option] = Stored(Options[option], Scaled(Options[option]))]
  /\ option' = option + 1
  /\ UNCHANGED <<phase, fileVars, line, pairs, changed>>

(* wserver_cfg::_check. *)
Check == configs[Zone] \in -11..11

(* The end of wserver_cfg::init; close_file forgets the pairs. *)
EndOfInit ==
  /\ phase = "setting" /\ option \notin DOMAIN Options
  /\ phase' = IF Check THEN "ready" ELSE "failed"
  /\ pairs' = IF Check THEN {} ELSE pairs
  /\ UNCHANGED <<fileVars, line, option, configs, changed>>

-----------------------------------------------------------------------------
(* set_config: the number as it is given. *)
SetConfig(i, number) ==
  /\ phase = "ready" /\ changed = {}
  /\ configs' = [configs EXCEPT ![i] = Stored(Options[i], number)]
  /\ changed' = {<<i, number>>}
  /\ UNCHANGED <<phase, fileVars, line, pairs, option>>

(* wserver_cfg::destroy, after a failed init as well. *)
Destroy ==
  /\ phase \in {"ready", "failed"}
  /\ phase' = "new"
  /\ configs' = Unset /\ pairs' = {} /\ line' = 1 /\ option' = 1 /\ changed' = {}
  /\ UNCHANGED fileVars

Next ==
  \/ Open \/ ReadLine \/ EndOfFile \/ SetOption \/ EndOfInit \/ Destroy
  \/ \E i \in DOMAIN Options, n \in Numbers : SetConfig(i, n)

Spec == Init /\ [][Next]_vars

-----------------------------------------------------------------------------
(* The type of every variable; there is one pair for a name. *)
TypeOK ==
  /\ phase \in {"new", "reading", "setting", "ready", "failed"}
  /\ file \in Files /\ mark \in BOOLEAN
  /\ line \in 1..(MaxLines + 1) /\ option \in 1..(Len(Options) + 1)
  /\ \A p, q \in pairs : p[1] = q[1] => p = q
  /\ \A i \in DOMAIN Options : configs[i] \in (IF Options[i].signed THEN Int ELSE 0..(Unsigned - 1))
  /\ changed \subseteq (DOMAIN Options) \X Numbers

LinesOf(o) == {n \in DOMAIN file : file[n].name = o.name}

(* What the file says of an option, with nothing read from pairs or line. *)
Written(o) ==
  IF LinesOf(o) = {} THEN {o.default} ELSE {file[n].value : n \in LinesOf(o)}

(* Once the program runs, each option has the one value the file gives it,  *)
(* or its default, times its scale; a file that names an option twice is    *)
(* refused, and so is a time zone out of range.                             *)
LoadedAsWritten ==
  phase = "ready" /\ changed = {} =>
    \A i \in DOMAIN Options : LET o == Options[i] IN
      /\ Cardinality(LinesOf(o)) <= 1
      /\ \A v \in Written(o) :
           v * o.scale \in 0..(Unsigned - 1) \/ o.signed => configs[i] = v * o.scale

(* "[-11, 11]": the time zone of a running program is in this range. *)
ZoneInRange == phase = "ready" => configs[Zone] \in -11..11

(* "in seconds": the heart beat that set_config is given means what the     *)
(* same number means in the file.                                           *)
SameUnit ==
  \A c \in changed : LET o == Options[c[1]] IN
    c[2] * o.scale \in 0..(Unsigned - 1) => configs[c[1]] = c[2] * o.scale
=============================================================================
