------------------------------ MODULE MCConfig -------------------------------
(* Instances of Config for TLC. *)
EXTENDS Config, TLC

CONSTANTS user, etc, p1, p2

MCCliSearch == <<user, etc>>      \* ~/.config/facepass, then /etc/facepass
MCDaemonSearch == <<etc>>         \* a system service has no HOME

MCProcesses == {p1, p2}
MCSymmetry == Permutations(MCProcesses)

\* BTreeMap writes them in this order.
MCPresetOrder == <<"default", "dev", "negative", "odd", "short", "strict">>

\* Two bases, each with presets that resolve, do not validate, or are no table
Presets == [strict |-> [streak |-> 3, threshold |-> 9], short |-> [max_frames |-> 2],
            odd |-> NotATable, negative |-> [timeout |-> -1]]
MCDocuments ==
    {[active |-> "default", base |-> Default, presets |-> Presets],
     [active |-> "strict", base |-> [Default EXCEPT !.max_frames = 0, !.valid_frames = 0],
      presets |-> [strict |-> [threshold |-> 10], default |-> [timeout |-> 0]]]}
=============================================================================
