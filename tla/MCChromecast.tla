---------------------------- MODULE MCChromecast ----------------------------
(* Instances of Chromecast: one device with an idle screen and a music     *)
(* application that is closed and launched again.                          *)
EXTENDS Chromecast

Launches == {"home", "first", "second"}
AppNames == [home |-> "Backdrop", first |-> "Music", second |-> "Music"]
Media    == [home |-> "none", first |-> "music", second |-> "unknown"]
=============================================================================
