CONSTANTS
    CodePoints = {0, 65, 233, 128512}
    MaxChars = 2
    Jvms = {"hotspot", "art"}
SPECIFICATION Spec
INVARIANT TypeOK
INVARIANT RoundTrip
