----------------------------- MODULE MCFeatures -----------------------------
(***************************************************************************)
(* The two feature loops of centroidFilterHistory() in one model.  They    *)
(* share no state: each moves only while the other is at its start, so     *)
(* that the states of one are not multiplied by those of the other.        *)
(***************************************************************************)
EXTENDS StrokeRuns, CoTrends

FeatureInit == Init /\ TrendInit

FeatureNext ==
    \/ \E d \in Steps : TrendInit /\ Frame(d) /\ UNCHANGED trendVars
    \/ TrendInit /\ Slide /\ UNCHANGED trendVars
    \/ TrendInit /\ Finish /\ UNCHANGED trendVars
    \/ \E dY \in dYs, dYTip \in dYtips : Init /\ TrendFrame(dY, dYTip) /\ UNCHANGED vars
    \/ Init /\ Scan /\ UNCHANGED vars

FeatureSpec == FeatureInit /\ [][FeatureNext]_<<vars, trendVars>>
=============================================================================
