---------------------------- MODULE Segmentation ----------------------------
(***************************************************************************)
(* Calendar segmentation (domain/segmentation.rs): one tag per picture, a    *)
(* function of its date and of the service's config.                        *)
(*                                                                         *)
(* A config is [root, hemisphere, catchAll, bands]; a band [from, to,       *)
(* enabled, template, parts, offset], dates being days.  A template is a     *)
(* sequence of levels, a level one of parts, each a literal or a             *)
(* placeholder.  The optional settings of a placeholder, and of a config,    *)
(* are the keys its record has.  A rendered label is a sequence of tokens    *)
(* <<kind, value>>: digits, words, literal letters, "_" and a character      *)
(* labels do not allow.                                                      *)
(***************************************************************************)
EXTENDS Calendar, Sequences, SequencesExt

CONSTANT Absent              \* no date, no bound, no catch-all

Setting(rec, key, default) == IF key \in DOMAIN rec THEN rec[key] ELSE default

Placeholders == {"year", "iso_year", "quarter", "season", "month", "week", "day", "weekday", "daypart"}
HasNamedForm(ph) == ph \in {"season", "month", "weekday", "daypart"}
NumericByDefault(ph) == ph \notin {"season", "weekday", "daypart"}

Letter(code) == [lit |-> <<"letter", code>>]
Dash == [lit |-> <<"-", 0>>]
Ph(name) == [ph |-> name]
IsPlaceholder(part) == "ph" \in DOMAIN part
----------------------------------------------------------------------------
(* Validation. *)

LevelHasContent(level) == \E i \in DOMAIN level : IsPlaceholder(level[i]) \/ level[i].lit[1] = "letter"

ValidPart(ph, pc) ==
    LET strided == Setting(pc, "stride", 1) > 1 IN
    /\ Setting(pc, "stride", 1) >= 1
    /\ Setting(pc, "numeric", TRUE) \/ HasNamedForm(ph)
    /\ Setting(pc, "abbrev", FALSE) => HasNamedForm(ph)
    /\ Setting(pc, "pad", 1) >= 1
    /\ Setting(pc, "bound", "start") # "start" \/ "range_sep" \in DOMAIN pc => strided

PlaceholdersOf(level) == {level[j].ph : j \in {k \in DOMAIN level : IsPlaceholder(level[k])}}
Used(template) == UNION {PlaceholdersOf(template[i]) : i \in DOMAIN template}

ValidBand(band) ==
    /\ band.from # Absent /\ band.to # Absent => band.from < band.to
    /\ band.template # << >>
    /\ \A i \in DOMAIN band.template : LevelHasContent(band.template[i])
    /\ DOMAIN band.parts \subseteq Used(band.template)
    /\ \A ph \in DOMAIN band.parts : ValidPart(ph, band.parts[ph])
    /\ \A key \in DOMAIN band.offset : band.offset[key] >= 0

Valid(config) == \A i \in DOMAIN config.bands : ValidBand(config.bands[i])
----------------------------------------------------------------------------
(* Rendering. *)

SeasonIndex(m, hemisphere) ==
    LET north == CASE m \in {12, 1, 2} -> 1 [] m \in 3..5 -> 2 [] m \in 6..8 -> 3 [] OTHER -> 4
    IN  IF hemisphere = "north" THEN north ELSE ((north + 1) % 4) + 1

Projected(ph, t, hemisphere) ==
    LET d == DayOf(t) IN
    CASE ph = "year" -> YearOf(d)
      [] ph = "iso_year" -> IsoYear(d)
      [] ph = "quarter" -> ((MonthOf(d) - 1) \div 3) + 1
      [] ph = "season" -> SeasonIndex(MonthOf(d), hemisphere)
      [] ph = "month" -> MonthOf(d)
      [] ph = "week" -> IsoWeek(d)
      [] ph = "day" -> DayOfMonth(d)
      [] ph = "weekday" -> Weekday(d)
      [] ph = "daypart" -> (HourOf(t) \div 6) + 1

(* field_range: the first value of the field's cycle, and the last *)
Origin(ph) == IF ph \in {"year", "iso_year"} THEN 0 ELSE 1
CycleEnd(ph, t) ==
    LET d == DayOf(t) IN
    CASE ph \in {"year", "iso_year"} -> 100000
      [] ph \in {"quarter", "season", "daypart"} -> 4
      [] ph = "month" -> 12
      [] ph = "week" -> LastIsoWeek(IsoYear(d))
      [] ph = "day" -> MonthLength(YearOf(d), MonthOf(d))
      [] ph = "weekday" -> 7

Digits(n, pad) ==
    LET places == Max({1, pad} \cup {k \in 1..4 : n >= 10^(k - 1)})
    IN  [i \in 1..places |-> <<"digit", (n \div 10^(places - i)) % 10>>]

(* render_placeholder.  pc is the record of the placeholder's settings. *)
Rendered(ph, t, hemisphere, pc) ==
    LET raw == Projected(ph, t, hemisphere)
        stride == Max({1, Setting(pc, "stride", 1)})
        start == Origin(ph) + ((raw - Origin(ph)) \div stride) * stride
        end == IF Setting(pc, "inclusive_end", FALSE) THEN Min({start + stride - 1, CycleEnd(ph, t)})
               ELSE start + stride
        bound == Setting(pc, "bound", "start")
        pad == Setting(pc, "pad", 0)
    IN  IF ~Setting(pc, "numeric", NumericByDefault(ph)) THEN << <<ph, start>> >>
        ELSE IF stride = 1 THEN Digits(start, pad)
        ELSE CASE bound = "start" -> Digits(start, pad)
               [] bound = "end" -> Digits(end, pad)
               [] bound = "range" -> Digits(start, pad) \o << Setting(pc, "range_sep", <<"_", 0>>) >> \o Digits(end, pad)

(* slugify_label: a run of what is not allowed becomes one "_", none at either end *)
Slug(tokens) ==
    LET Push(c, out) ==
            CASE c[1] # "-" -> Append(out, c)
              [] out # << >> /\ Last(out) = <<"_", 0>> -> out
              [] OTHER -> Append(out, <<"_", 0>>)
        all == FoldLeft(LAMBDA out, c : Push(c, out), << >>, tokens)
        solid == {i \in DOMAIN all : all[i] # <<"_", 0>>}
    IN  IF solid = {} THEN << <<"untitled", 0>> >> ELSE SubSeq(all, Min(solid), Max(solid))

(* Offset::apply: months first, cut to the month's end, then days, then time *)
Shifted(t, offset) ==
    LET d == SubMonths(DayOf(t), Setting(offset, "months", 0)) - Setting(offset, "days", 0)
    IN  d * Day + TimeOf(t) - Setting(offset, "time", 0)

Render(band, t, hemisphere) ==
    LET at == Shifted(t, band.offset)
        Part(part) == IF IsPlaceholder(part)
                      THEN Rendered(part.ph, at, hemisphere, Setting(band.parts, part.ph, << >>))
                      ELSE <<part.lit>>
    IN  [i \in DOMAIN band.template |->
            Slug(FlattenSeq([j \in DOMAIN band.template[i] |-> Part(band.template[i][j])]))]

(* the band's dates are those of the calendar, before the offset *)
Covers(band, t) ==
    (band.from = Absent \/ DayOf(t) >= band.from) /\ (band.to = Absent \/ DayOf(t) < band.to)

None == << >>

(* resolve: no tag is the empty path *)
Resolve(config, t) ==
    LET open == {i \in DOMAIN config.bands : config.bands[i].enabled /\ t # Absent /\ Covers(config.bands[i], t)}
        rest == IF config.catchAll = Absent THEN None ELSE config.root \o <<config.catchAll.name>>
    IN  CASE t = Absent -> IF config.catchAll # Absent /\ config.catchAll.include_undated THEN rest ELSE None
          [] t # Absent /\ open = {} -> rest
          [] OTHER -> config.root \o Render(config.bands[Min(open)], t, config.hemisphere)
----------------------------------------------------------------------------
(* Time passes through the segments of a config one after the other: it never comes back *)
(* to one it has left. *)
SegmentsAreIntervals(config, instants) ==
    LET tag == [i \in DOMAIN instants |-> Resolve(config, instants[i])]
        starts == {i \in DOMAIN instants : i = 1 \/ tag[i] # tag[i - 1]}
    IN  Cardinality({tag[i] : i \in starts}) = Cardinality(starts)
=============================================================================
