-------------------------------- MODULE Media --------------------------------
(***************************************************************************)
(* The media operations of _video.py and of the native library: episodes   *)
(* are concatenated into a file and split out of it again without          *)
(* decoding, digested for comparison, or encoded from still images.  Time  *)
(* is in ticks, far above the tolerance of 1e-7 s; a packet is known by    *)
(* its clip and its position there.                                        *)
(***************************************************************************)
EXTENDS SequencesExt

CONSTANTS
  SplitJobs,    \* [clips, wanted, staged, native]
  EncodeJobs    \* [inputs, batch, staged, sameFilesystem]

(* A clip: its packets in the order of decoding; its length, which is that *)
(* of the picture and all that the metadata of a dataset know (frames by   *)
(* fps); and the duration its container declares, which is that of its     *)
(* longest stream.  Frames may be stored out of order, and sound usually   *)
(* outlasts the picture a little.                                          *)
Clip == [packets: Seq([stream: {"video", "audio"}, at: Nat]), length: Nat,
         duration: Nat]

(* Every episode has a frame, so that every clip has a packet; the callers *)
(* pass the slices of a file in the order of its episodes.  Nothing is     *)
(* split without a slice (split_video returns) or encoded without an input.*)
ASSUME MediaAssumption ==
  /\ SplitJobs \subseteq [clips: Seq(Clip), wanted: Seq(Nat) \ {<<>>},
                          staged: BOOLEAN, native: BOOLEAN]
  /\ \A j \in SplitJobs :
       /\ \A c \in Range(j.clips) :
            /\ c.length > 0 /\ c.length <= c.duration /\ c.packets # <<>>
            /\ \A n \in DOMAIN c.packets : c.packets[n].at < c.duration
       /\ \A k \in DOMAIN j.wanted : j.wanted[k] \in DOMAIN j.clips
       /\ \A k, l \in DOMAIN j.wanted : k < l => j.wanted[k] < j.wanted[l]
  /\ EncodeJobs \subseteq [inputs: Seq(Nat) \ {<<>>}, batch: Nat \ {0},
                           staged: BOOLEAN, sameFilesystem: BOOLEAN]

VARIABLES
  media,      \* the job
  medium,     \* "routing", "encoding", "publishing", "done" or "failed"
  demuxed,    \* packets read
  slice,      \* number of the output that is open; 0: none yet
  targets,    \* output -> [state, packets]
  frames,     \* frames of the present input that are encoded
  input       \* number of the present input

mediaVars == <<media, medium, demuxed, slice, targets, frames, input>>

Lengths(clips) == [i \in DOMAIN clips |-> clips[i].length]
From(clips, i) == SumFunctionOnSet(Lengths(clips), 1 .. i - 1)
To(clips, i) == From(clips, i) + clips[i].length

(* concatenate_videos: all packets, one file after the other, later by the *)
(* durations of the files before; the metadata of the episodes add up      *)
(* their lengths.                                                          *)
Lasting(clips) == [i \in DOMAIN clips |-> clips[i].duration]
Displacement(clips, i) == SumFunctionOnSet(Lasting(clips), 1 .. i - 1)

Concatenated(clips) ==
  FlattenSeq([i \in DOMAIN clips |->
    [n \in DOMAIN clips[i].packets |->
      [stream |-> clips[i].packets[n].stream,
       at |-> clips[i].packets[n].at + Displacement(clips, i), of |-> <<i, n>>]]])

PictureEnd(clips) == Displacement(clips, Len(clips)) + clips[Len(clips)].length

Packets == Concatenated(media.clips)
Slices == [k \in DOMAIN media.wanted |->
            <<From(media.clips, media.wanted[k]), To(media.clips, media.wanted[k])>>]
Splitting == medium = "routing"
Nothing == [state |-> "absent", packets |-> <<>>]

(* A single output that is the whole picture is copied with all the file.  *)
WholeFile == /\ Len(Slices) = 1 /\ Slices[1][1] = 0
             /\ Slices[1][2] = PictureEnd(media.clips)

MediaInit ==
  /\ \/ /\ media \in SplitJobs /\ medium = "routing"
        /\ targets = [k \in DOMAIN media.wanted |-> Nothing]
     \/ /\ media \in EncodeJobs /\ medium = "encoding"
        /\ targets = <<Nothing>>
  /\ demuxed = 0 /\ slice = 0 /\ frames = 0 /\ input = 1
-----------------------------------------------------------------------------
(* split_video *)

CopyWhole ==
  /\ Splitting /\ demuxed = 0 /\ WholeFile
  /\ \/ targets' = <<[state |-> "whole", packets |-> Packets]>> /\ medium' = "done"
     \/ targets' = <<[state |-> "partial", packets |-> <<>>]>> /\ medium' = "failed"
  /\ UNCHANGED <<media, demuxed, slice, frames, input>>

(* Mutant: the tolerance is added, not subtracted.                         *)
ReachedLate(at) == slice < Len(Slices) /\ at > Slices[slice + 1][1]

(* The open output is left as soon as any packet reaches the next slice.   *)
Reached(at) == slice < Len(Slices) /\ at >= Slices[slice + 1][1]

OpenSlice ==
  /\ Splitting /\ ~WholeFile /\ demuxed < Len(Packets)
  /\ Reached(Packets[demuxed + 1].at)
  /\ slice' = slice + 1
  /\ targets' = [k \in DOMAIN targets |->
       IF k = slice THEN [targets[k] EXCEPT !.state = "whole"]
       ELSE IF k = slice + 1 THEN [state |-> "partial", packets |-> <<>>]
       ELSE targets[k]]
  /\ UNCHANGED <<media, medium, demuxed, frames, input>>

(* Times are counted from the beginning of the slice.                      *)
RoutePacket ==
  /\ Splitting /\ ~WholeFile /\ demuxed < Len(Packets)
  /\ ~Reached(Packets[demuxed + 1].at)
  /\ LET packet == Packets[demuxed + 1]
     IN  targets' = IF slice = 0 \/ packet.at >= Slices[slice][2]
                    THEN targets
                    ELSE [targets EXCEPT ![slice].packets =
                           Append(@, [packet EXCEPT !.at = @ - Slices[slice][1]])]
  /\ demuxed' = demuxed + 1
  /\ UNCHANGED <<media, medium, slice, frames, input>>

EndSplit ==
  /\ Splitting /\ ~WholeFile /\ demuxed = Len(Packets)
  /\ targets' = [k \in DOMAIN targets |->
       IF k = slice THEN [targets[k] EXCEPT !.state = "whole"] ELSE targets[k]]
  /\ medium' = "done"
  /\ UNCHANGED <<media, demuxed, slice, frames, input>>

(* What a failure leaves: whole outputs stay; the open one was temporary,  *)
(* or is removed, except by the native library when the caller's staging   *)
(* directory vouches for it, and by the Python code when it was being      *)
(* moved from another file system.                                         *)
Remains == CASE media.native /\ media.staged -> {targets[slice]}
             [] ~media.native /\ ~media.staged -> {Nothing, targets[slice]}
             [] OTHER -> {Nothing}

FailSplit ==
  /\ Splitting /\ ~WholeFile
  /\ IF slice = 0
     THEN UNCHANGED targets
     ELSE \E left \in Remains : targets' = [targets EXCEPT ![slice] = left]
  /\ medium' = "failed"
  /\ UNCHANGED <<media, demuxed, slice, frames, input>>
-----------------------------------------------------------------------------
(* write_media_group of still images: each input must return exactly the   *)
(* frames it has declared, batch by batch.                                 *)

Left == media.inputs[input] - frames

(* Mutant: an input may stop before it has returned all of its frames.     *)
NextInputShort ==
  /\ medium = "encoding"
  /\ input < Len(media.inputs)
  /\ input' = input + 1 /\ frames' = 0
  /\ UNCHANGED <<media, medium, demuxed, slice, targets>>

NextInput ==
  /\ medium = "encoding" /\ Left = 0
  /\ input < Len(media.inputs)
  /\ input' = input + 1 /\ frames' = 0
  /\ UNCHANGED <<media, medium, demuxed, slice, targets>>

EncodeBatch ==
  /\ medium = "encoding" /\ Left > 0
  /\ LET batch == [n \in 1 .. Min({media.batch, Left}) |->
                    [of |-> <<input, frames + n>>, intra |-> frames + n = 1]]
     IN  /\ targets' = <<[state |-> "partial",
                          packets |-> targets[1].packets \o batch]>>
         /\ frames' = frames + Len(batch)
  /\ UNCHANGED <<media, medium, demuxed, slice, input>>

(* A batch that is longer or shorter than asked, or missing; an image that *)
(* is none or of another size.                                             *)
FailEncode ==
  /\ medium \in {"encoding", "publishing"}
  /\ targets' = <<Nothing>>
  /\ medium' = "failed"
  /\ UNCHANGED <<media, demuxed, slice, frames, input>>

EndEncode ==
  /\ medium = "encoding" /\ Left = 0 /\ input = Len(media.inputs)
  /\ medium' = "publishing"
  /\ UNCHANGED <<media, demuxed, slice, targets, frames, input>>

PublishMedia ==
  /\ medium = "publishing"
  /\ \/ /\ targets' = <<[targets[1] EXCEPT !.state = "whole"]>> /\ medium' = "done"
     \/ /\ ~media.staged /\ ~media.sameFilesystem   \* shutil.move copies
        /\ medium' = "failed" /\ UNCHANGED targets
  /\ UNCHANGED <<media, demuxed, slice, frames, input>>

MediaNext ==
  \/ CopyWhole \/ OpenSlice \/ RoutePacket \/ EndSplit \/ FailSplit
  \/ NextInput \/ EncodeBatch \/ EndEncode \/ FailEncode \/ PublishMedia

MediaSpec == MediaInit /\ [][MediaNext]_mediaVars
-----------------------------------------------------------------------------
(* packet_digests: the payloads of the picture, in one pass that never     *)
(* goes back to an earlier slice.                                          *)
Skip(ranges, index, at) ==
  CHOOSE k \in index .. Len(ranges) :
    /\ \A j \in index .. k - 1 : at >= ranges[j][2]
    /\ k = Len(ranges) \/ at < ranges[k][2]

AddDigest(ranges, s, packet) ==
  LET k == Skip(ranges, s.index, packet.at)
  IN  [index |-> k,
       digests |-> IF ranges[k][1] <= packet.at /\ packet.at < ranges[k][2]
                   THEN [s.digests EXCEPT ![k] = Append(@, packet.of)]
                   ELSE s.digests]

Digests(packets, ranges) ==
  FoldLeft(LAMBDA s, packet : IF packet.stream = "video"
                              THEN AddDigest(ranges, s, packet) ELSE s,
           [index |-> 1, digests |-> [k \in DOMAIN ranges |-> <<>>]],
           packets).digests

(* No clip has sound that outlasts its picture.                            *)
InStep(clips) == \A c \in Range(clips) : c.duration = c.length

(* The packets of a clip in a file of its own.                             *)
Single(clips, i) ==
  [n \in DOMAIN clips[i].packets |->
    [stream |-> clips[i].packets[n].stream, at |-> clips[i].packets[n].at,
     of |-> <<i, n>>]]

(* Every output holds the packets of its clip, in their order and with     *)
(* their times, and the digests of slices of the file are those of the     *)
(* single files.                                                           *)
OutputsAreClips ==
  \A k \in DOMAIN targets :
    LET own == Single(media.clips, media.wanted[k])
        length == media.clips[media.wanted[k]].length
    IN  /\ targets[k] = [state |-> "whole", packets |-> own]
        /\ Digests(Packets, Slices)[k] = Digests(own, <<(<<0, length>>)>>)[1]

(* Splitting undoes concatenating, whichever clips are wanted and even if  *)
(* frames are stored out of order, for clips without sound or with sound   *)
(* that ends with the picture.  Where sound outlasts the picture of a clip *)
(* it does not: SplitPreservesPackets.                                     *)
SplitUndoesConcat ==
  medium = "done" /\ media \in SplitJobs /\ InStep(media.clips) =>
    OutputsAreClips

(* native/src/lib.rs:633 calls the split of any file "packet-preserving".  *)
(* Every output should hold at least the pictures of its clip.  But sound  *)
(* that outlasts a clip puts all later clips behind the slices that the    *)
(* metadata give them, and it closes the slice of its clip, although       *)
(* pictures of that clip may be stored behind it.                          *)
Pictures(packets) == SelectSeq(packets, LAMBDA p : p.stream = "video")

SplitPreservesPackets ==
  medium = "done" /\ media \in SplitJobs =>
    \A k \in DOMAIN targets :
      Pictures(targets[k].packets) = Pictures(Single(media.clips, media.wanted[k]))

(* An encoded file that is reported as written holds every frame of every  *)
(* input once and in order, each input beginning with an intra frame, so   *)
(* that it can be split off again; a failed one is gone, or was being      *)
(* copied from another file system.                                        *)
EncodingIsComplete ==
  media \in EncodeJobs =>
    /\ medium = "done" =>
         targets[1].packets =
           FlattenSeq([i \in DOMAIN media.inputs |->
             [n \in 1 .. media.inputs[i] |-> [of |-> <<i, n>>, intra |-> n = 1]]])
    /\ medium = "failed" /\ targets[1] # Nothing =>
         ~media.staged /\ ~media.sameFilesystem
=============================================================================
