------------------------------- MODULE Reducer -------------------------------
(***************************************************************************)
(* video_rgb_moments of the editor's native extension: an FFmpeg process   *)
(* writes decoded frames to one pipe and messages to another, the reducer  *)
(* reads frames, a thread drains the messages.  Both pipes are bounded.    *)
(***************************************************************************)
EXTENDS SequencesExt

CONSTANTS
  Videos,     \* jobs: [lengths, frames, messages, fails]
  PipeSize    \* frames or messages that a pipe holds

ASSUME ReducerAssumption ==
  /\ PipeSize \in Nat \ {0}
  /\ \A v \in Videos : v.lengths \in Seq(Nat) /\ {v.frames, v.messages} \subseteq Nat

VARIABLES
  video,      \* the job
  reducing,   \* "idle", "reading", "reaping", "joining" or "ended"
  rows,       \* frames reduced
  verdict,    \* "ok", "early", "trailing", "invalid" or "failed"
  ffmpeg,     \* "none", "running", "exited", "broken" or "killed"
  written,    \* [frames, messages] produced by FFmpeg
  out, err,   \* frames and messages in the pipes
  reader,     \* our end of the pipe of frames is open
  drain       \* "none", "draining" or "done"

reducerVars == <<video, reducing, rows, verdict, ffmpeg, written, out, err, reader, drain>>

Expected == FoldSeq(LAMBDA a, b : a + b, 0, video.lengths)
Invalid(v) == v.lengths = <<>> \/ 0 \in Range(v.lengths)

ReducerInit ==
  /\ video \in Videos /\ reducing = "idle" /\ rows = 0 /\ verdict = "ok"
  /\ ffmpeg = "none" /\ written = [frames |-> 0, messages |-> 0]
  /\ out = 0 /\ err = 0 /\ reader = TRUE /\ drain = "none"

Spawn ==
  /\ reducing = "idle"
  /\ ffmpeg' = "running" /\ drain' = "draining" /\ reducing' = "reading"
  /\ UNCHANGED <<video, rows, verdict, written, out, err, reader>>
-----------------------------------------------------------------------------
(* FFmpeg: it blocks on a full pipe and dies of a closed one.              *)

WriteFrame ==
  /\ ffmpeg = "running" /\ written.frames < video.frames
  /\ IF reader
     THEN /\ out < PipeSize
          /\ out' = out + 1 /\ written' = [written EXCEPT !.frames = @ + 1]
          /\ UNCHANGED ffmpeg
     ELSE ffmpeg' = "broken" /\ UNCHANGED <<out, written>>
  /\ UNCHANGED <<video, reducing, rows, verdict, err, reader, drain>>

WriteMessage ==
  /\ ffmpeg = "running" /\ written.messages < video.messages /\ err < PipeSize
  /\ err' = err + 1 /\ written' = [written EXCEPT !.messages = @ + 1]
  /\ UNCHANGED <<video, reducing, rows, verdict, ffmpeg, out, reader, drain>>

ExitFFmpeg ==
  /\ ffmpeg = "running"
  /\ written = [frames |-> video.frames, messages |-> video.messages]
  /\ ffmpeg' = IF video.fails THEN "broken" ELSE "exited"
  /\ UNCHANGED <<video, reducing, rows, verdict, written, out, err, reader, drain>>
-----------------------------------------------------------------------------
(* Mutant: messages are read when the process has ended.                   *)
DrainLate ==
  /\ drain = "draining" /\ ffmpeg # "running"
  /\ IF err > 0 THEN err' = err - 1 /\ UNCHANGED drain
     ELSE drain' = "done" /\ UNCHANGED err
  /\ UNCHANGED <<video, reducing, rows, verdict, ffmpeg, written, out, reader>>

Drain ==
  /\ drain = "draining"
  /\ \/ err > 0 /\ err' = err - 1 /\ UNCHANGED drain
     \/ err = 0 /\ ffmpeg # "running" /\ drain' = "done" /\ UNCHANGED err
  /\ UNCHANGED <<video, reducing, rows, verdict, ffmpeg, written, out, reader>>

ReadFrame ==
  /\ reducing = "reading" /\ ~Invalid(video) /\ out > 0 /\ rows < Expected
  /\ out' = out - 1 /\ rows' = rows + 1
  /\ UNCHANGED <<video, reducing, verdict, ffmpeg, written, err, reader, drain>>

(* The stream ends early, is longer than the episodes, or fits.  In the    *)
(* first two cases, and when the job itself is senseless, the process is   *)
(* killed; in all of them the pipe is closed first.                        *)
Reduced(result) ==
  /\ reducing = "reading"
  /\ CASE result = "invalid" -> Invalid(video)
       [] result = "early" -> ~Invalid(video) /\ rows < Expected
                                /\ out = 0 /\ ffmpeg # "running"
       [] result = "trailing" -> ~Invalid(video) /\ rows = Expected /\ out > 0
       [] result = "ok" -> ~Invalid(video) /\ rows = Expected
                             /\ out = 0 /\ ffmpeg # "running"
  /\ verdict' = result
  /\ reader' = FALSE /\ out' = 0
  /\ ffmpeg' = IF result # "ok" /\ ffmpeg = "running" THEN "killed" ELSE ffmpeg
  /\ reducing' = "reaping"
  /\ UNCHANGED <<video, rows, written, err, drain>>

Wait ==
  /\ reducing = "reaping" /\ ffmpeg # "running"
  /\ reducing' = "joining"
  /\ UNCHANGED <<video, rows, verdict, ffmpeg, written, out, err, reader, drain>>

Join ==
  /\ reducing = "joining" /\ drain = "done"
  /\ verdict' = IF verdict = "ok" /\ ffmpeg # "exited" THEN "failed" ELSE verdict
  /\ reducing' = "ended"
  /\ UNCHANGED <<video, rows, ffmpeg, written, out, err, reader, drain>>

ReducerStep ==
  \/ WriteFrame \/ WriteMessage \/ ExitFFmpeg \/ Drain \/ ReadFrame \/ Wait \/ Join
  \/ \E result \in {"invalid", "early", "trailing", "ok"} : Reduced(result)

ReducerNext == Spawn \/ ReducerStep
ReducerFairness == WF_reducerVars(ReducerStep)
ReducerSpec == ReducerInit /\ [][ReducerNext]_reducerVars /\ ReducerFairness
-----------------------------------------------------------------------------
(* However much either side writes, a reduction that has begun ends, with  *)
(* the process reaped and the thread joined, and it ends well exactly for  *)
(* a stream of as many frames as the episodes have from a process that     *)
(* succeeded.                                                              *)
ReductionEnds ==
  (reducing # "idle") ~>
    /\ reducing = "ended" /\ ffmpeg # "running" /\ drain = "done"
    /\ (verdict = "ok") <=> /\ ~Invalid(video) /\ video.frames = Expected
                            /\ ~video.fails
=============================================================================
