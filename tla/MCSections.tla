---------------------------- MODULE MCSections ----------------------------
(* Small instances of Sections: what the monitor may write. *)
EXTENDS Sections

LOCAL Word(w) == [is |-> w, n |-> 0, unit |-> ""]
LOCAL Number(what, n, unit) == [is |-> what, n |-> n, unit |-> unit]
LOCAL TitleLine(words) == [title |-> TRUE, text |-> words]
LOCAL TextLine(tokens) == [title |-> FALSE, text |-> tokens]

MCTotal == [n |-> 16, unit |-> "GB"]

(* Sections of every kind, plainly written and not, with values in and out *)
(* of place.                                                               *)
MCLines ==
  { TitleLine(<<>>),
    TitleLine(<<Word("CPU:"), Number("model", 8700, ""), Word("CPU")>>),
    TitleLine(<<Word("GPU")>>),
    TitleLine(<<Word("GPU"), Word("power")>>),
    TitleLine(<<Word("Neicun")>>),
    TitleLine(<<Word("Wangluo")>>),
    TitleLine(<<Word("network")>>),
    TextLine(<<>>),
    TextLine(<<Number("watt", 9, "W"), Word("power"), Number("watt", 35, "W")>>),
    TextLine(<<Number("percent", 45, "%"), Word("temp"), Number("celsius", 65, "C")>>),
    TextLine(<<Word("download"), Number("rate", 3, "MB"), Word("upload"), Number("rate", 2, "GB")>>),
    TextLine(<<Number("rate", 7, "KB"), Word("upload")>>),
    TextLine(<<Number("rate", 7, "KB"), Number("rate", 5, "KB")>>),
    TextLine(<<Word("upload"), Number("rate", 9, "KB")>>),
    TextLine(<<Number("capacity", 8, "GB")>>),
    TextLine(<<Word("CPU:"), Number("percent", 120, "%")>>) }
===========================================================================
