----------------------------- MODULE MCReceiver -----------------------------
(* Sessions of two subsessions each, video and audio.                      *)
EXTENDS Receiver

MCSubsessions == [s \in Sessions |-> <<<<s, "video">>, <<s, "audio">>>>]
MCPorts == Sessions \X {"video", "audio"}

(* What follows after trouble is not looked at: no property speaks of it.  *)
Untroubled == ~troubled
=============================================================================
