----------------------------- MODULE Predicates -----------------------------
(***************************************************************************)
(* The rule predicate engine (domain/predicate.rs): what a predicate tree   *)
(* accepts when it is saved and which pictures it matches.  A tree is the    *)
(* JSON object itself, a record; a picture gives each field a value or       *)
(* Absent.  A string is a sequence of letters [letter, upper]; a regular     *)
(* expression is the set of strings it matches; numbers are integers; the    *)
(* values inside a tree have the JSON type their key asks for.               *)
(***************************************************************************)
EXTENDS Calendar, Sequences, Functions

CONSTANTS MaxDepth,          \* MAX_PREDICATE_DEPTH
          Absent             \* the value of a field the picture does not have
ASSUME MaxDepthAssumption == MaxDepth \in Nat

DateFields == {"captured_at", "ingested_at", "updated_at"}
NumFields == {"gps_lat", "gps_lng", "f_number", "focal_length_mm", "exposure_time",
              "gps_alt", "iso_speed", "orientation", "file_size", "width", "height"}
StrFields == {"camera_brand", "camera_model", "filename", "mime_type", "owner", "creator"}
BoolFields == {"is_owned"}
Fields == DateFields \cup NumFields \cup StrFields \cup BoolFields

Nullable(field) == field \notin {"owner", "creator"}
IsPresent(v) == v # Absent

SeasonMonths == [spring |-> 3..5, summer |-> 6..8, autumn |-> 9..11, winter |-> {12, 1, 2}]
----------------------------------------------------------------------------
(* Conditions of a field node. *)

Lower(s) == [i \in DOMAIN s |-> [s[i] EXCEPT !.upper = FALSE]]
StartsWith(s, n) == Len(n) <= Len(s) /\ SubSeq(s, 1, Len(n)) = n
EndsWith(s, n) == Len(n) <= Len(s) /\ SubSeq(s, Len(s) - Len(n) + 1, Len(s)) = n
ContainsString(s, n) == \E i \in 1..(Len(s) + 1) : StartsWith(SubSeq(s, i, Len(s)), n)

StrOp(key, v, n, ignoreCase) ==
    LET s == IF ignoreCase THEN Lower(v) ELSE v
        t == IF ignoreCase THEN Lower(n) ELSE n
    IN  CASE key = "eq" -> s = t
          [] key = "contains" -> ContainsString(s, t)
          [] key = "starts_with" -> StartsWith(s, t)
          [] key = "ends_with" -> EndsWith(s, t)

(* parse_date_bound: a bound is an instant, or a whole day [day |-> d] *)
Bound(b, isEnd) ==
    IF b.wholeDay THEN b.at * Day + (IF isEnd THEN Day - Second ELSE 0) ELSE b.at

(* the range crosses midnight when its end comes first *)
InTimeRange(time, from, to) ==
    IF from <= to THEN from <= time /\ time <= to ELSE from <= time \/ time <= to

MatchesDate(key, v, d) ==
    CASE key = "year" -> YearOf(DayOf(d)) = v
      [] key = "month" -> MonthOf(DayOf(d)) = v
      [] key = "season" -> MonthOf(DayOf(d)) \in SeasonMonths[v]
      [] key = "date_range" -> Bound(v.from, FALSE) <= d /\ d <= Bound(v.to, TRUE)
      [] key = "time_range" -> InTimeRange(TimeOf(d), v.from, v.to)

MatchesNumber(key, v, n) ==
    CASE key = "eq" -> n = v [] key = "min" -> n >= v [] key = "max" -> n <= v

Matched(field, key, v, ignoreCase, value) ==
    CASE field \in DateFields -> MatchesDate(key, v, value)
      [] field \in NumFields -> MatchesNumber(key, v, value)
      [] field \in BoolFields -> value = v
      [] key = "regex" -> (IF ignoreCase THEN Lower(value) ELSE value) \in v
      [] OTHER -> StrOp(key, value, v, ignoreCase)

(* a fault: what is not known is not held against the picture *)
CondMatchesBlank(field, key, v, ignoreCase, value) ==
    IF key = "is_present" THEN IsPresent(value) = v
    ELSE IsPresent(value) => Matched(field, key, v, ignoreCase, value)

(* Condition::matches *)
CondMatches(field, key, v, ignoreCase, value) ==
    IF key = "is_present" THEN IsPresent(value) = v
    ELSE IsPresent(value) /\ Matched(field, key, v, ignoreCase, value)

Conditions(node) == DOMAIN node \ {"field", "ignore_case"}
IgnoresCase(node) == "ignore_case" \in DOMAIN node /\ node.ignore_case

Distance(lat1, lng1, lat2, lng2) ==
    LET Abs(n) == IF n < 0 THEN -n ELSE n IN Abs(lat1 - lat2) + Abs(lng1 - lng2)

(* Predicate::matches.  A picture without both coordinates is in no area. *)
RECURSIVE Matches(_, _)
Matches(node, pic) ==
    LET located == IsPresent(pic["gps_lat"]) /\ IsPresent(pic["gps_lng"])
        lat == pic["gps_lat"]
        lng == pic["gps_lng"]
    IN  CASE "and" \in DOMAIN node -> \A c \in Range(node.and) : Matches(c, pic)
          [] "or" \in DOMAIN node -> \E c \in Range(node.or) : Matches(c, pic)
          [] "not" \in DOMAIN node -> ~Matches(node.not, pic)
          [] "gps_bbox" \in DOMAIN node ->
                LET box == node.gps_bbox IN
                located /\ lat \in box.lat_min..box.lat_max /\ lng \in box.lon_min..box.lon_max
          [] "gps_radius" \in DOMAIN node ->
                LET r == node.gps_radius IN located /\ Distance(r.lat, r.lng, lat, lng) <= r.km
          [] OTHER -> \A key \in Conditions(node) :
                CondMatches(node.field, key, node[key], IgnoresCase(node), pic[node.field])
----------------------------------------------------------------------------
(* What parse accepts. *)

(* parse_condition *)
Supports(field, key, v) ==
    \/ key = "is_present" /\ Nullable(field)
    \/ key = "eq" /\ field \notin DateFields
    \/ key \in {"min", "max"} /\ field \in NumFields
    \/ key \in {"contains", "starts_with", "ends_with", "regex"} /\ field \in StrFields
    \/ /\ field \in DateFields
       /\ \/ key = "year"
          \/ key = "month" /\ v \in 1..12
          \/ key = "season" /\ v \in DOMAIN SeasonMonths
          \/ key = "date_range" /\ Bound(v.from, FALSE) <= Bound(v.to, TRUE)
          \/ key = "time_range"

(* a node keyed by a discriminator takes no other key *)
RECURSIVE Accepts(_, _)
Accepts(node, depth) ==
    /\ depth <= MaxDepth
    /\ \/ DOMAIN node = {"and"} /\ \A c \in Range(node.and) : Accepts(c, depth + 1)
       \/ DOMAIN node = {"or"} /\ \A c \in Range(node.or) : Accepts(c, depth + 1)
       \/ DOMAIN node = {"not"} /\ Accepts(node.not, depth + 1)
       \/ /\ DOMAIN node = {"gps_bbox"}
          /\ node.gps_bbox.lat_min <= node.gps_bbox.lat_max
          /\ node.gps_bbox.lon_min <= node.gps_bbox.lon_max
       \/ DOMAIN node = {"gps_radius"} /\ node.gps_radius.km >= 0
       \/ /\ "field" \in DOMAIN node
          /\ DOMAIN node \cap {"and", "or", "not", "gps_bbox", "gps_radius"} = {}
          /\ node.field \in Fields
          /\ Conditions(node) # {}
          /\ \A key \in Conditions(node) : Supports(node.field, key, node[key])
----------------------------------------------------------------------------
(* What users read from a tree, checked over every tree and picture of an instance. *)

(* nothing in the tree asks for an absence *)
RECURSIVE Affirms(_)
Affirms(node) ==
    CASE "and" \in DOMAIN node -> \A c \in Range(node.and) : Affirms(c)
      [] "or" \in DOMAIN node -> \A c \in Range(node.or) : Affirms(c)
      [] "not" \in DOMAIN node -> FALSE
      [] OTHER -> "is_present" \in DOMAIN node => node.is_present

(* pic says everything poorer says, and more *)
Completes(pic, poorer) == \A f \in DOMAIN pic : poorer[f] \in {Absent, pic[f]}

(* Learning a fact of a picture never takes it out of an affirming rule. *)
NeverUnlearnt(node, pic, poorer) ==
    Affirms(node) /\ Completes(pic, poorer) /\ Matches(node, poorer) => Matches(node, pic)

(* A date is in one of two ranges that follow each other, and a time in one of two that *)
(* complete each other and meet at their bounds alone. *)
Tile(t, d1, d2, d3) ==
    LET In(a, b) == MatchesDate("date_range", [from |-> [wholeDay |-> TRUE, at |-> a],
                                                to |-> [wholeDay |-> TRUE, at |-> b]], t)
    IN  /\ t % Second = 0 => (In(d1, d3) <=> In(d1, d2) \/ In(d2 + 1, d3))
        /\ ~(In(d1, d2) /\ In(d2 + 1, d3))
        /\ In(d1, d2) => In(d1, d3)

AroundTheClock(time, from, to) ==
    from # to =>
        /\ InTimeRange(time, from, to) \/ InTimeRange(time, to, from)
        /\ InTimeRange(time, from, to) /\ InTimeRange(time, to, from) => time \in {from, to}
=============================================================================
