\* Two requests at a time, of any method, again and again; two fields of the
\* spec, so that two patches may be about the same field or not.
SPECIFICATION Spec
CONSTANTS
    Requests = {r1, r2}
    Fields = {f1, f2}
    Values = {v1, v2}
    Unset = Unset
INVARIANT TypeOK
PROPERTIES FinalizerKept FieldsByTheirWriters ReplyShowsTheWrite
SYMMETRY Symmetry
