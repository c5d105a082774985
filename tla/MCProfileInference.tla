------------------------- MODULE MCProfileInference -------------------------
EXTENDS ProfileInference

\* The fields that interact, taken apart: a brake and its rotor, two counts and
\* their derived sum, the four facts of the legacy brake type.
MCVocabularies ==
  {{"rear.mechanism", "rear.rotor"}, CountFields, BrakeFields}

MCActive == Fields

Edit(f, v) == << <<f, v>> >>

MCEdits ==
  {Edit(f, NoValue) : f \in {"rear.mechanism", "rear.rotor", "cluster.speeds"}}
    \cup {Edit("rear.mechanism", v) : v \in {"disc", "rim"}}
    \cup {Edit("rear.rotor", "present"), Edit("shifter.speeds", 11),
          Edit("cluster.speeds", 11)}
    \cup {LegacyBrakePatch(k) : k \in {"hydraulic_disc", "rim", "coaster"}}

Sure(f, v) == Finding(f, v, "overwrite", TRUE)

Likely(f, v) == Finding(f, v, "fill", TRUE)

MCExtractions ==
  { {Sure("rear.mechanism", "rim")}, {Likely("rear.mechanism", "disc")},
    {Finding("rear.mechanism", "disc", "fill", FALSE)},
    {Likely("rear.rotor", "absent")},
    {Sure("rear.mechanism", "disc"), Likely("rear.rotor", "present")},
    {Sure("cluster.speeds", 11)}, {Sure("cluster.speeds", 12)},
    {Sure("cluster.speeds", 11), Sure("shifter.speeds", 12)},
    {Finding("shifter.speeds", 12, "low", TRUE)},
    {Sure("cluster.speeds", 11), Finding("cluster.speeds", 12, "low", TRUE)},
    {Sure("rear.mechanism", "coaster")}, {Sure("rear.actuation", "none")},
    {Sure("rear.mechanism", "coaster"), Sure("rear.actuation", "hydraulic")},
    {Sure("front.mechanism", "disc"), Sure("rear.mechanism", "disc")} }
=============================================================================
