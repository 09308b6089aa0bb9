--------------------------- MODULE MCSettingsSave ----------------------------
(***************************************************************************)
(* A small instance of SettingsSave for TLC, after the example's settings: *)
(* its number, whose default is below its least and which a blank leaves   *)
(* at that; and its dropdown, of which the host lets a blank through and   *)
(* the plugin does not.                                                    *)
(***************************************************************************)
EXTENDS SettingsSave, TLC

HelloTexts == [repeat |-> {"", "0", "2"}, verbosity |-> {"", "normal", "chatty"}]
HelloHostTakes == [repeat |-> {"", "2"}, verbosity |-> {"", "normal", "chatty"}]
HelloPluginTakes == [repeat |-> {"", "2"}, verbosity |-> {"normal", "chatty"}]
HelloRewritten == [repeat |-> ("" :> "0" @@ "2" :> "2"),
                   verbosity |-> [t \in {"normal", "chatty"} |-> t]]
HelloDefaults == [repeat |-> "0", verbosity |-> "normal"]
SubmitterSymmetry == Permutations(Submitters)
=============================================================================
