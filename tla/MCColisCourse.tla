---------------------------- MODULE MCColisCourse ----------------------------
(* Small instances of ColisCourse for TLC: a bag of two articles. *)
EXTENDS ColisCourse

CONSTANTS o1, o2, a1, a2, t1, t2, c1, c2
TwoArticles == <<o1, o2>>

World(doors, ts, as, cs) == [doors |-> doors, tasks |-> ts, courses |-> as, cmds |-> cs]

\* Custody's words on the road, the decision relayed, an article retired alone,
\* the whole bag retired.
Road == World({"facts", "compose", "requeue", "take-back", "refusal", "absent", "reprogram"},
              {t1, t2}, {a1, a2}, {})
Decided == World({"facts", "compose", "refusal", "absent", "decide", "silence"},
                 {t1}, {a1}, {c1, c2})
Retired == World({"facts", "compose", "retire", "cancel"}, {t1, t2}, {a1, a2}, {})
Purged == World({"facts", "compose", "retire-bag"}, {t1}, {a1, a2}, {})
Together == {Road, Decided, Retired, Purged}

\* An article declined, cancelled or retired apart from its bag.
Apart == {World({"facts", "compose", "requeue", "cancel"}, {t1}, {a1, a2}, {}),
          World({"facts", "compose", "cancel"}, {t1, t2}, {a1, a2}, {}),
          World({"facts", "compose", "retire"}, {t1, t2}, {a1}, {})}
RetiredWhole == {World({"facts", "compose", "retire-bag"}, {t1}, {a1}, {})}
Repeated == {World({"facts", "compose", "absent", "decide"}, {t1}, {a1}, {c1, c2})}
=============================================================================
