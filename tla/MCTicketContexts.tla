--------------------------- MODULE MCTicketContexts ---------------------------
(* The two services share the ticket and nothing else: each behaviour follows *)
(* one of them, the other one standing still.  FloodHere and SlideHere are at  *)
(* one pin; PotholeHere, there too, is in no category with a context.          *)
EXTENDS HazardLookup, RainfallContext, TLC

CONSTANTS FloodHere, SlideHere, FloodThere, PotholeHere, Here, There

VARIABLE service  \* the service followed

MCLayer == (FloodHere :> "FLOOD") @@ (FloodThere :> "FLOOD") @@ (PotholeHere :> "none")
           @@ (SlideHere :> "RAIN_INDUCED_LANDSLIDE")
MCPin == [s \in Sites |-> IF s = FloodThere THEN There ELSE Here]

hazardOwn == <<lookup, current, failures, detail>>
rainOwn   == <<rain, refresh, cache, clocks, rainFailures, views>>

MCInit ==
  /\ RainInit
  /\ \/ service = "hazard"   /\ Init
     \/ service = "rainfall" /\ Blank /\ phase = "idle"

MCNext ==
  /\ UNCHANGED service
  /\ \/ service = "hazard" /\ Next /\ UNCHANGED rainOwn
     \/ service = "rainfall" /\ RainNext /\ UNCHANGED hazardOwn

MCSpec == /\ MCInit /\ [][MCNext]_<<vars, rainVars, service>>
          /\ WF_vars(service = "hazard" /\ Steps)
          /\ WF_vars(service = "hazard" /\ AskIfDue)
          /\ WF_rainVars(service = "rainfall" /\ RainSteps)
          /\ WF_rainVars(service = "rainfall" /\ AskRainIfDue)
          /\ WF_rainVars(service = "rainfall" /\ MinutePasses)
          /\ SF_rainVars(service = "rainfall" /\ TenMinutesPass)
=============================================================================
