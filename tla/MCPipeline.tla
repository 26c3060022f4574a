----------------------------- MODULE MCPipeline -----------------------------
(* A clip of ten frames, one that replaced it and one with a missing frame; *)
(* a tick is half a second, a frame five of them, so that no boundary of    *)
(* the grid but the first falls on a frame.                                 *)
EXTENDS Pipeline

TheClips ==
  [a |-> [name |-> "a", slots |-> 0..9, duration |-> 50, audio |-> TRUE, width |-> 1920],
   b |-> [name |-> "b", slots |-> 0..6, duration |-> 35, audio |-> FALSE, width |-> 1280],
   h |-> [name |-> "h", slots |-> (0..7) \ {3}, duration |-> 40, audio |-> TRUE, width |-> 1920]]

FullHD == [width |-> 1920, height |-> 1080, bitrate |-> 6]
HD == [width |-> 1280, height |-> 720, bitrate |-> 3]

TheLadders ==
  [plain |-> [h264 |-> <<FullHD, HD>>, hevc |-> <<FullHD>>],
   twins |-> [h264 |-> <<FullHD, [FullHD EXCEPT !.bitrate = 4]>>]]

Full ==
  [mode |-> "full", clip |-> "a", limit |-> 0, chunk |-> 24, seg |-> 12, pad |-> FALSE,
   force |-> FALSE, codecs |-> "h264", ladder |-> "plain", minRes |-> 0, maxRes |-> 2160,
   override |-> << >>, sized |-> << >>, budget |-> 0, fmp4 |-> TRUE, ts |-> FALSE]
Farm == [Full EXCEPT !.mode = "dist"]
Resume == [Full EXCEPT !.mode = "resume"]

Label(height) == <<height, 0>>

TheOptions ==
  {Full,
   [Full EXCEPT !.clip = "b", !.override = (720 :> 2)],
   [Full EXCEPT !.limit = 24, !.force = TRUE],
   [Full EXCEPT !.limit = 48, !.chunk = 48, !.maxRes = 720],
   [Full EXCEPT !.pad = TRUE, !.minRes = 1080],
   [Full EXCEPT !.ladder = "twins", !.chunk = 0, !.ts = TRUE],
   [Full EXCEPT !.clip = "b", !.seg = 8, !.codecs = "both", !.fmp4 = FALSE],
   [Full EXCEPT !.chunk = 20],
   [Full EXCEPT !.clip = "h", !.maxRes = 720],
   [Resume EXCEPT !.codecs = "", !.chunk = 0],
   [Resume EXCEPT !.codecs = "both", !.chunk = 0],
   [Farm EXCEPT !.codecs = "both", !.chunk = 0, !.maxRes = 1080],
   [Farm EXCEPT !.clip = "h", !.sized = (<<"h264", Label(720)>> :> 12)],
   [Farm EXCEPT !.budget = 3000000, !.sized = (<<"h264", Label(1080)>> :> 12)],
   [Farm EXCEPT !.limit = 20, !.chunk = 12, !.budget = 3000000],
   [Farm EXCEPT !.chunk = 20]}

Cost == [h264 |-> 10, hevc |-> 35, av1 |-> 80]
TwoPasses == [h264 |-> 2, hevc |-> 2, av1 |-> 1]
=============================================================================
