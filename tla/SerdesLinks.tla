---------------------------- MODULE SerdesLinks ----------------------------
(***************************************************************************)
(* What serdes_cfg sends to configure a channel (serdes_data.c,            *)
(* serdes_data_raw.c, element_process.c): register tables for the          *)
(* deserializer (0x90), for the serializers at the ends of its two links   *)
(* and for the sensors behind them, and the order in which                 *)
(* serdes_channel_init sends them.                                         *)
(*                                                                         *)
(* A serializer comes up at 0x80, whatever its link.  So the tables select *)
(* one link, move its serializer to an address of its own (0xc0, 0xc4),    *)
(* and give its sensor one (0x36, 0x38) by a translation in the            *)
(* serializer; then both links can be selected.  A table is the sequence   *)
(* of its elements; the ones in a row that set other registers of the same *)
(* chip are one element (Set).                                             *)
(***************************************************************************)
EXTENDS Sequences, Naturals

\* The steps of the tool: commands, and the decisions between them.
Step(op, dev, r, as) == [op |-> op, dev |-> dev, reg |-> r, as |-> as]
Decide(what) == Step(what, "", "", "")
Detect == Step("detect", "", "", "")

Links == {"linkA", "linkB"}
Chosen == [a |-> {"linkA"}, b |-> {"linkB"}, ab |-> Links]
Own == [linkA |-> "0xc0", linkB |-> "0xc4"]      \* serializers, once moved
Alias == [linkA |-> "0x36", linkB |-> "0x38"]    \* sensors, once translated

Element(dev, what, arg) == Step("element", dev, what, arg)
Select(links) == Element("0x90", "select", links)        \* 0x10 or 0x0f00
Reset(dev) == Element(dev, "reset", "")                   \* 0x91 to 0x10
Move(to) == Element("0x80", "move", to)                   \* register 0
Translate(dev, to) == Element(dev, "translate", to)       \* 0x42, 0x43
Set(dev) == Element(dev, "set", "")

\* element_channel_process: the elements of a table between two i2cdetect.
Elements(table) == <<Detect>> \o table \o <<Detect>>
\* The table of a sensor, sent to an address; its own one is its first column.
Sensor(dev) == <<Step("sensor", dev, "", "")>>
Probe(link) == <<Step("probe", Own[link], "", ""), Decide(link)>>

\* An operator X_Fault, written before X, is X with the fault its comment names:
\* no specification uses it, it is there to be put in the place of X, to see that
\* a property notices.
-----------------------------------------------------------------------------
\* serdes_data.c: serializers 9295, YUV.

max9296_two9295_linka ==
    <<Reset("0x90"), Set("0x90"), Select("a"), Set("0x90"), Move("0xc0"), Set("0xc0")>>
max9296_two9295_linka_1 ==
    <<Set("0xc0"), Translate("0xc0", "0x34"), Set("0xc0"), Select("ab"), Select("b"),
      Set("0x90"), Move("0xc4"), Set("0xc4")>>
max9296_two9295_linka_2 ==
    <<Reset("0x90"), Select("a"), Reset("0xc0"), Move("0xc0"), Set("0xc0"),
      Set("0x90"), Set("0xc0")>>
max9296_two9295_linkb ==
    <<Select("b"), Move("0xc4"), Set("0xc4"), Translate("0xc4", "0x34"),
      Set("0xc4"), Set("0x90")>>
max9296_two9295_linkab ==
    <<Reset("0x90"), Reset("0xc0"), Select("b"), Set("0xc4"), Select("a"), Move("0xc0"),
      Set("0xc0"), Select("ab"), Set("0x90"), Set("0xc0"), Set("0xc4")>>

\* Serializers 96705.
max9296_two96705_linkab_0 == <<Set("0x90")>>
max9296_two96705_linka == <<Select("a"), Move("0xc0"), Move("0xc0"), Set("0xc0")>>
max9296_two96705_linkab_1 == <<Set("0x90")>>
max9296_two96705_linkab_2 == <<Select("ab")>>
max9296_two96705_linkb == <<Select("b"), Move("0xc4"), Set("0xc4")>>
max9296_two96705_linka_video == <<Set("0xc0")>>
max9296_two96705_linkb_video == <<Set("0xc4")>>

\* Serializers 96717.
max9296_two96717f == <<Set("0x90"), Select("ab")>>
max9296_two96717f_linka == <<Select("a"), Move("0xc0"), Set("0xc0")>>
max9296_two96717f_linkb == <<Select("b"), Move("0xc4"), Set("0xc4")>>
max9296_two96717f_linkab == <<Select("b"), Move("0xc4"), Set("0xc4")>>
max9296_two96717f_linkab_1 == <<Set("0x90")>>
max9296_two96717f_linkab_2 == <<Set("0x90"), Select("ab")>>
max9296_two96717f_linka_video == <<Set("0xc0")>>
max9296_two96717f_linkb_video == <<Set("0xc4")>>

\* Sensors with tables of their own.
max9296_9295_ISX028_ES2_YUV_array_fromflash == "0x34"
max9295_9296_S36_YUV_array ==
    <<Set("0x90"), Select("a"), Set("0x80"), Select("a"), Set("0x80"), Set("0x90"), Set("0x80")>>
-----------------------------------------------------------------------------
\* serdes_data_raw.c: serializers 9295, raw.  Where sensors are translated to
\* is put into the tables before they are sent (to).

max9296_two9295_raw12_linka ==
    <<Set("0x90"), Select("a"), Set("0x90"), Set("0x80"), Move("0xc0"), Set("0xc0")>>
max9296_two9295_raw12_linka_1 ==
    <<Set("0xc0"), Select("b"), Set("0x90"), Move("0xc4"), Set("0xc4")>>
max9296_two9295_raw12_linka_2(to) ==
    <<Set("0x90"), Select("a"), Set("0xc0"), Translate("0xc0", to), Set("0x90")>>
max9296_two9295_raw12_linkb(to) ==
    <<Select("b"), Set("0x80"), Move("0xc4"), Set("0xc4"), Translate("0xc4", to),
      Set("0xc4"), Set("0x90")>>

max9296_two9295_raw12_linkab(to) ==
    <<Set("0xc4"), Translate("0xc4", to), Set("0xc4"), Select("ab"), Set("0x90"),
      Translate("0xc0", to), Set("0xc0"), Set("0x90"), Set("0xc4"), Set("0x90")>>
max9296_two9295_raw12_linka_forDB ==
    <<Set("0x90"), Select("a"), Reset("0xc0"), Set("0x80"), Set("0x90"), Set("0x80")>>

\* The tables of the sensors, in the order of ele_info_raw.
max9296_9295_ox03c_raw_array == "0x6c"
max9296_9295_OX8B_raw_array == "0x6c"
max9296_9295_ar0233_raw_array == "0x20"
max9296_9295_ar0820_raw_array == "0x20"
max9296_9295_imx390_raw_array == "0x42"
max9296_9295_imx490_raw_array == "0x34"
max9296_9295_imx728_raw_array == "0x34"
max9296_9295D_imx900DB_raw12_array == ""          \* empty
max9296_96717_SHW3G_raw12_array == "0x6c"

ele_info_raw ==
    <<max9296_9295_ox03c_raw_array, max9296_9295_OX8B_raw_array,
      max9296_9295_ar0233_raw_array, max9296_9295_ar0820_raw_array,
      max9296_9295_imx390_raw_array, max9296_9295_imx490_raw_array,
      max9296_9295_imx728_raw_array, max9296_9295D_imx900DB_raw12_array,
      max9296_96717_SHW3G_raw12_array>>
-----------------------------------------------------------------------------
\* serdes_channel_init by index: what comes first, what comes between the
\* probes of the two links, and what follows where both links, only link A,
\* and not link A were found.
Flow(start, between, both, onlyA, noA) ==
    [start |-> start \o Probe("linkA"), between |-> between \o Probe("linkB"),
     both |-> both, onlyA |-> onlyA, noA |-> noA]

Index0 == Flow(
    Elements(max9296_two96705_linkab_0) \o Elements(max9296_two96705_linka),
    Elements(max9296_two96705_linkb),
    Elements(max9296_two96705_linkab_2) \o Elements(max9296_two96705_linkab_1)
        \o Elements(max9296_two96705_linka_video) \o Elements(max9296_two96705_linkb_video),
    <<Select("a")>> \o Elements(max9296_two96705_linkab_1)
        \o Elements(max9296_two96705_linka_video),
    Elements(max9296_two96705_linkb) \o Elements(max9296_two96705_linkab_1)
        \o Elements(max9296_two96705_linkb_video))

Index1 == Flow(
    Elements(max9296_two9295_linka), Elements(max9296_two9295_linka_1),
    Elements(max9296_two9295_linkab), Elements(max9296_two9295_linka_2),
    Elements(max9296_two9295_linkb))

Index2 == Flow(
    Elements(max9296_two96717f) \o Elements(max9296_two96717f_linka),
    Elements(max9296_two96717f_linkab),
    Elements(max9296_two96717f_linkb) \o Elements(max9296_two96717f_linkab_2)
        \o Elements(max9296_two96717f_linkab_1)
        \o Elements(max9296_two96717f_linka_video) \o Elements(max9296_two96717f_linkb_video),
    Elements(max9296_two96717f_linka) \o Elements(max9296_two96717f_linkab_1)
        \o Elements(max9296_two96717f_linka_video),
    Elements(max9296_two96717f_linkb) \o Elements(max9296_two96717f_linkab_1)
        \o Elements(max9296_two96717f_linkb_video))

\* What index 1 sends, and the sensors.
Index6 ==
    LET own == Elements(Sensor(max9296_9295_ISX028_ES2_YUV_array_fromflash)) IN
    [Index1 EXCEPT
        !.both = @ \o Elements(Sensor("0x36")) \o Elements(Sensor("0x38")),
        !.onlyA = @ \o own, !.noA = @ \o own]

\* No probe: the one table.
Index7 == [start |-> Elements(max9295_9296_S36_YUV_array), between |-> <<>>,
           both |-> <<>>, onlyA |-> <<>>, noA |-> <<>>]

\* serdes_channel_init_raw: n is the sensor.  Not all of them are there for
\* every combination of links.
SensorTable(n) == ele_info_raw[n + 1]

\* What the tables hold is not replaced.
RawTo_Unpatched(n) == "0x42"

\* What is put into the tables for a sensor.
RawTo(n) ==
    CASE n \in {0, 1, 8} -> "0x6c" [] n \in {2, 3} -> "0x20"
      [] n = 4 -> "0x42" [] n \in {5, 6} -> "0x34"

RawBoth(n) ==
    IF n = 7 THEN <<>>
    ELSE Elements(max9296_two9295_raw12_linkab(RawTo(n)))
         \o Elements(Sensor("0x36")) \o Elements(Sensor("0x38"))
RawOnlyA(n) ==
    IF n = 7 THEN Elements(max9296_two9295_raw12_linka_forDB) \o Elements(<<>>)
    ELSE Elements(max9296_two9295_raw12_linka_2(RawTo(n))) \o Elements(Sensor("0x36"))
RawNoA(n) ==
    IF n \in {7, 8} THEN <<>>
    ELSE Elements(max9296_two9295_raw12_linkb(RawTo(n))) \o Elements(Sensor("0x38"))
serdes_channel_init_raw(n) ==
    Flow(Elements(max9296_two9295_raw12_linka), Elements(max9296_two9295_raw12_linka_1),
         RawBoth(n), RawOnlyA(n), RawNoA(n))

serdes_channel_init(x) ==
    CASE x = 0 -> Index0 [] x = 1 -> Index1 [] x = 2 -> Index2
      [] x = 6 -> Index6 [] x = 7 -> Index7
      [] x \in 100 .. 108 -> serdes_channel_init_raw(x - 100)

\* The address the sensor's table was written for.
SensorAt(x) ==
    CASE x = 6 -> max9296_9295_ISX028_ES2_YUV_array_fromflash
      [] x \in 100 .. 108 -> SensorTable(x - 100)
      [] OTHER -> ""
=============================================================================
