------------------------------- MODULE AsyncLog -------------------------------
(***************************************************************************)
(* wasync_log: any thread appends lines to a buffer in memory, one worker  *)
(* writes full or pending buffers to the file and gives them back          *)
(* (src/wlib/wasync_log.cpp).                                              *)
(*                                                                         *)
(* A byte is the number of its line. Critical sections of m_lock, and the  *)
(* worker's file operations between them, are one step each.               *)
(***************************************************************************)
EXTENDS Integers, Sequences, SequencesExt

CONSTANTS
  Appenders, (* threads that log                                  *)
  Cap,       (* wlog_buf::MAX_SIZE                                *)
  Lens,      (* lengths of the lines                              *)
  MaxBufs,   (* m_max_buf_size_MB; 0: no limit                    *)
  MaxLines   (* bound: lines accepted                             *)

AsyncLogAssumption ==
  /\ Cap \in Nat \ {0}
  /\ Lens \subseteq Nat
  /\ MaxBufs \in Nat
  /\ MaxLines \in Nat

VARIABLES
  cur,    (* *m_cur_buf                                               *)
  data,   (* m_data_bufs                                              *)
  avail,  (* m_avail_bufs.size(); the buffers in it are empty         *)
  held,   (* *buf of the worker; <<>> when it has none                *)
  stop,   (* m_stop                                                   *)
  pc,     (* the worker: "ready" to look, "asleep", "flush", "ended"; *)
          (* with a buffer "write" and, emptied, "give_back"; "none"  *)
          (* when there is no file, and then no buffer either         *)
  app,    (* appender: "idle", "notify", "crashed"                    *)
  closer, (* destroy(): "idle", "notify", "join", "returned"; the     *)
          (* process is gone: "crashed"                               *)
  lines,  (* lines accepted                                           *)
  file,   (* bytes written to m_file                                  *)
  disk    (* how many of them are flushed                             *)

bufVars == <<cur, data, avail, held>>
vars == <<bufVars, stop, pc, app, closer, lines, file, disk>>

(* Mutant: init makes no spare buffer. *)
NoSpare == 0

SpareAtStart == 1

Line(k, len) == [i \in 1..len |-> k]
Woken == IF pc = "asleep" THEN "ready" ELSE pc

(* init; main goes on when the file cannot be opened. *)
Init ==
  /\ cur = <<>> /\ data = <<>> /\ held = <<>>
  /\ \/ pc = "ready" /\ avail = SpareAtStart
     \/ pc = "none" /\ avail = 0
  /\ stop = FALSE
  /\ app = [a \in Appenders |-> "idle"] /\ closer = "idle"
  /\ lines = 0 /\ file = <<>> /\ disk = 0

-----------------------------------------------------------------------------
(* append. A line too long, one for a full log, and one after the stop are  *)
(* dropped.                                                                 *)

RoomFor(len) == Cap - Len(cur) > len
LogFull      == MaxBufs # 0 /\ Len(data) > MaxBufs

Dropped(a, len) ==
  /\ app[a] = "idle"
  /\ len >= Cap \/ stop \/ (~RoomFor(len) /\ LogFull)
  /\ UNCHANGED vars

(* m_cur_buf is null. *)
LoggedNowhere(a, len) ==
  /\ app[a] = "idle" /\ pc = "none"
  /\ len < Cap /\ ~stop
  /\ app' = [b \in Appenders |-> "crashed"] /\ closer' = "crashed"
  /\ UNCHANGED <<bufVars, stop, pc, lines, file, disk>>

Logged(a, len) ==
  /\ app[a] = "idle" /\ pc # "none"
  /\ len < Cap /\ ~stop
  /\ lines < MaxLines
  /\ \/ /\ RoomFor(len)
        /\ cur' = cur \o Line(lines + 1, len)
        /\ UNCHANGED <<data, avail>>
     \/ /\ ~RoomFor(len) /\ ~LogFull
        /\ data'  = Append(data, cur)
        /\ avail' = IF avail > 0 THEN avail - 1 ELSE 0
        /\ cur'   = Line(lines + 1, len)
  /\ lines' = lines + 1
  /\ app'   = [app EXCEPT ![a] = "notify"]
  /\ UNCHANGED <<held, stop, pc, closer, file, disk>>

(* Mutant: the worker is not woken. *)
NotifyNobody(a) ==
  /\ app[a] = "notify"
  /\ app' = [app EXCEPT ![a] = "idle"]
  /\ UNCHANGED <<bufVars, stop, pc, closer, lines, file, disk>>

(* notify_one, after the mutex is released. *)
Notify(a) ==
  /\ app[a] = "notify"
  /\ app' = [app EXCEPT ![a] = "idle"]
  /\ pc'  = Woken
  /\ UNCHANGED <<bufVars, stop, closer, lines, file, disk>>

-----------------------------------------------------------------------------
(* destroy(): stop, wake the worker, join it, close the file. *)

Stop ==
  /\ closer = "idle"
  /\ stop'   = TRUE
  /\ closer' = "notify"
  /\ UNCHANGED <<bufVars, pc, app, lines, file, disk>>

NotifyStop ==
  /\ closer = "notify"
  /\ closer' = "join"
  /\ pc' = Woken
  /\ UNCHANGED <<bufVars, stop, app, lines, file, disk>>

Join ==
  /\ closer = "join"
  /\ pc \in {"ended", "none"}
  /\ closer' = "returned"
  /\ disk'   = Len(file)
  /\ avail'  = 0
  /\ UNCHANGED <<cur, data, held, stop, pc, app, lines, file>>

-----------------------------------------------------------------------------
(* _work_thread. *)

(* Mutant: what is in the current buffer goes before the full ones. *)
GetCurrentFirst(spare, otherwise) ==
  \/ /\ cur # <<>> /\ spare > 0
     /\ held' = cur /\ cur' = <<>> /\ avail' = spare - 1
     /\ pc' = "write"
     /\ UNCHANGED data
  \/ /\ cur = <<>> \/ spare = 0
     /\ data # <<>>
     /\ held' = Head(data) /\ data' = Tail(data) /\ avail' = spare
     /\ pc' = "write"
     /\ UNCHANGED cur
  \/ /\ data = <<>> /\ (cur = <<>> \/ spare = 0)
     /\ avail' = spare
     /\ pc' = otherwise
     /\ UNCHANGED <<cur, data, held>>

(* _get_next_data_buf with that many buffers to spare: the oldest full one, *)
(* or the current one in exchange for a spare one; or nothing.              *)
GetNextDataBuf(spare, otherwise) ==
  \/ /\ data # <<>>
     /\ held' = Head(data) /\ data' = Tail(data) /\ avail' = spare
     /\ pc' = "write"
     /\ UNCHANGED cur
  \/ /\ data = <<>> /\ cur # <<>>
     /\ held' = cur /\ cur' = <<>> /\ avail' = spare - 1
     /\ pc' = "write"
     /\ UNCHANGED data
  \/ /\ data = <<>> /\ cur = <<>>
     /\ avail' = spare
     /\ pc' = otherwise
     /\ UNCHANGED <<cur, data, held>>

Awake == data # <<>> \/ cur # <<>> \/ stop

Wait ==
  /\ pc = "ready" /\ ~Awake
  /\ pc' = "asleep"
  /\ UNCHANGED <<bufVars, stop, app, closer, lines, file, disk>>

WakeUp ==
  /\ pc = "asleep"
  /\ pc' = "ready"
  /\ UNCHANGED <<bufVars, stop, app, closer, lines, file, disk>>

Look ==
  /\ pc = "ready" /\ Awake
  /\ GetNextDataBuf(avail, "ended")
  /\ UNCHANGED <<stop, app, closer, lines, file, disk>>

Write ==
  /\ pc = "write"
  /\ file' = file \o held
  /\ held' = <<>>
  /\ pc'   = "give_back"
  /\ UNCHANGED <<cur, data, avail, stop, app, closer, lines, disk>>

GiveBack ==
  /\ pc = "give_back"
  /\ GetNextDataBuf(avail + 1, "flush")
  /\ UNCHANGED <<stop, app, closer, lines, file, disk>>

Flush ==
  /\ pc = "flush"
  /\ disk' = Len(file)
  /\ pc'   = "ready"
  /\ UNCHANGED <<bufVars, stop, app, closer, lines, file>>

-----------------------------------------------------------------------------
Worker == Wait \/ Look \/ Write \/ GiveBack \/ Flush

Next ==
  \/ \E a \in Appenders, len \in Lens : Dropped(a, len) \/ LoggedNowhere(a, len) \/ Logged(a, len)
  \/ \E a \in Appenders : Notify(a)
  \/ Stop \/ NotifyStop \/ Join
  \/ Worker \/ WakeUp

Spec == Init /\ [][Next]_vars

-----------------------------------------------------------------------------
Byte == 1..MaxLines
Buffer(buf) == buf \in Seq(Byte) /\ Len(buf) < Cap

(* The type of every variable; every buffer has a byte left for the final 0. *)
TypeOK ==
  /\ Buffer(cur) /\ Buffer(held)
  /\ \A i \in DOMAIN data : Buffer(data[i])
  /\ avail \in Int
  /\ stop \in BOOLEAN
  /\ pc \in {"ready", "asleep", "write", "give_back", "flush", "ended", "none"}
  /\ app \in [Appenders -> {"idle", "notify", "crashed"}]
  /\ closer \in {"idle", "notify", "join", "returned", "crashed"}
  /\ lines \in 0..MaxLines
  /\ file \in Seq(Byte)
  /\ disk \in 0..Len(file)

Pending == held \o FlattenSeq(data) \o cur

(* The bytes of the lines reach the file once, in the order of the appends,  *)
(* whichever buffer they are in when the worker looks.                      *)
Pipe == INSTANCE BytePipe WITH held <- Pending, out <- file
LinesInOrder == Pipe!Spec

(* When the worker swaps the current buffer for a spare one there is one:   *)
(* m_avail_bufs.front() is not read from an empty queue. With a limit, the  *)
(* buffers that are ever allocated are three more than it.                  *)
BuffersAccounted ==
  LET InHand == IF pc \in {"write", "give_back"} THEN 1 ELSE 0 IN
  /\ pc = "ready" /\ data = <<>> /\ cur # <<>> => avail > 0
  /\ MaxBufs # 0 => 1 + Len(data) + avail + InHand <= MaxBufs + 3

(* An accepted line is flushed to disk, stop or no stop; and destroy()      *)
(* returns, also after a failed init, with all that was accepted in the     *)
(* closed file.                                                             *)
LinesReachDisk ==
  /\ \A k \in 1..MaxLines : lines >= k ~> \E i \in 1..disk : file[i] = k
  /\ closer = "notify" ~> closer = "returned" /\ Pending = <<>> /\ disk = Len(file)
=============================================================================
