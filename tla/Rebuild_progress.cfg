SPECIFICATION FairSpec
CONSTANTS
    Scripts = {s1}
    Apps = {a1, a2}
    Page = Page
    Other = Other
    None = None
    Prompt = TRUE
PROPERTIES
    ProgressIsOwn
    NotAbandoned
    BarEnds
