------------------------------ MODULE MCMedia -------------------------------
(* Jobs of Media for TLC.                                                  *)
EXTENDS Media, TLC

(* Clips: plain, with a frame out of order, with sound that ends with the  *)
(* picture, with sound that lasts longer.                                  *)
Packet(stream, at) == [stream |-> stream, at |-> at]
MCClip(packets, length, duration) ==
  [packets |-> packets, length |-> length, duration |-> duration]
Plain(n) == MCClip([i \in 1 .. n |-> Packet("video", i - 1)], n, n)
Reordered ==
  MCClip(<<Packet("video", 0), Packet("video", 2), Packet("video", 1)>>, 3, 3)
Sounding(last) ==
  MCClip(<<Packet("video", 0), Packet("audio", 0), Packet("audio", last),
           Packet("video", 1)>>, 2, last + 1)

MCSplitJobs ==
  [clips: {<<Plain(2), Plain(1), Plain(2)>>, <<Reordered, Sounding(1), Plain(1)>>,
           <<Sounding(2), Plain(1), Reordered>>},
   wanted: {<<1>>, <<2>>, <<1, 2>>, <<1, 3>>, <<2, 3>>, <<1, 2, 3>>},
   staged: BOOLEAN, native: BOOLEAN]
    \cup [clips: {<<(Plain(2))>>, <<(Sounding(2))>>}, wanted: {<<1>>},
          staged: {TRUE}, native: BOOLEAN]
MCEncodeJobs == [inputs: {<<2, 3>>, <<1>>}, batch: {1, 2}, staged: BOOLEAN,
                 sameFilesystem: BOOLEAN]
=============================================================================
